---- MODULE Spec2Model ----
(***************************************************************************)
(* Attitude estimation of desktop_app: the extended Kalman filter           *)
(* (utils/kalman_filter.py: ExtendedKalmanFilter), its adaptive wrapper     *)
(* (AdaptiveEKFAttitudeEstimator) and the Madgwick filter                   *)
(* (utils/quaternion.py: MadgwickQuaternion).                               *)
(*                                                                         *)
(* Numbers.  The program computes in IEEE doubles.  Here every real is a    *)
(* decimal fixed-point integer: the real r is the integer r * Scale,        *)
(* rounded to the nearest unit.  Angles of the filter state are radians,    *)
(* gyro inputs degrees per second, accelerations g, dt seconds, all in      *)
(* this representation.  Pi is math.pi in it, so that radians(180) = Pi     *)
(* holds exactly, as it does for doubles.  Where the size of a double       *)
(* matters (a subtraction that is absorbed, a product that overflows), a    *)
(* number carries its scale with it: see the section on doubles.            *)
(*                                                                         *)
(* Evaluation.  A value that is used more than once is bound with Let (or   *)
(* Let2, Let3), the local variable of the source: it is computed once,      *)
(* where a LET definition is computed again at every use.                   *)
(***************************************************************************)
EXTENDS Integers, Sequences, FiniteSets, TLC

\* ------------------------------------------------------------ evaluation

\* F(v), F(u, v) and F(u, v, w), with the arguments computed once
Let(v, F(_)) == CHOOSE r \in {F(x) : x \in {v}} : TRUE

Let2(u, v, F(_, _)) == CHOOSE r \in {F(x, y) : x \in {u}, y \in {v}} : TRUE

Let3(u, v, w, F(_, _, _)) == CHOOSE r \in {F(x, y, z) : x \in {u}, y \in {v}, z \in {w}} : TRUE

\* ------------------------------------------------------------------ numbers

\* Scale == Base * Base
Base == 10 ^ 3

Scale == Base * Base

\* math.pi
Pi == 3141593

HalfPi == Pi \div 2

Abs(x) == Let(x, LAMBDA v : IF v < 0 THEN -v ELSE v)

Sgn(x) == IF x < 0 THEN -1 ELSE 1

Max(a, b) == Let2(a, b, LAMBDA x, y : IF x >= y THEN x ELSE y)

Min(a, b) == Let2(a, b, LAMBDA x, y : IF x <= y THEN x ELSE y)

\* a * b of two non-negative fixed-point numbers, rounded to the nearest unit.
\* The operands are split in a high and a low part so that no intermediate
\* product leaves the 32-bit integers of TLC.
MulPos(a, b) ==
    (a \div Base) * (b \div Base)
      + ((a \div Base) * (b % Base) + (a % Base) * (b \div Base)) \div Base
      + (((((a \div Base) * (b % Base) + (a % Base) * (b \div Base)) % Base) * Base
            + (a % Base) * (b % Base) + Scale \div 2) \div Scale)

Mul(a, b) ==
    Let2(a, b, LAMBDA x, y :
        IF x = 0 \/ y = 0 THEN 0
        ELSE IF x = Scale THEN y
        ELSE IF y = Scale THEN x
        ELSE IF x < 0
             THEN (IF y < 0 THEN MulPos(-x, -y) ELSE -MulPos(-x, y))
             ELSE (IF y < 0 THEN -MulPos(x, -y) ELSE MulPos(x, y)))

\* the k decimal digits of r / b after the point (0 <= r < b), the last rounded
RECURSIVE LongDiv(_, _, _)
LongDiv(r, b, k) ==
    Let2(r, k, LAMBDA r0, k0 :
        IF k0 = 0 THEN (IF 2 * r0 >= b THEN 1 ELSE 0)
        ELSE ((r0 * 10) \div b) * 10 ^ (k0 - 1) + LongDiv((r0 * 10) % b, b, k0 - 1))

\* a / b of two positive fixed-point numbers, rounded to the nearest unit:
\* long division, three digits at a time while the remainders allow it.
RECURSIVE DivPos(_, _)
DivPos(a, b) ==
    Let2(a, b, LAMBDA x, y :
        IF y > 200 * Scale
        THEN DivPos(x \div 10, y \div 10)
        ELSE IF y > 2 * Scale
        THEN (x \div y) * Scale + LongDiv(x % y, y, 6)
        ELSE Let(((x % y) * Base) % y, LAMBDA r2 :
                 (x \div y) * Scale + (((x % y) * Base) \div y) * Base
                   + ((r2 * Base + y \div 2) \div y)))

Div(a, b) ==
    Let2(a, b, LAMBDA x, y :
        IF x = 0 THEN 0
        ELSE IF y = Scale THEN x
        ELSE IF x < 0
             THEN (IF y < 0 THEN DivPos(-x, -y) ELSE -DivPos(-x, y))
             ELSE (IF y < 0 THEN -DivPos(x, -y) ELSE DivPos(x, y)))

\* math.sqrt of a fixed-point number: Newton's iteration from above
RECURSIVE SqrtIter(_, _)
SqrtIter(a, x) ==
    Let(x, LAMBDA x0 :
    Let((x0 + Div(a, x0)) \div 2, LAMBDA y :
        IF y >= x0 THEN x0 ELSE SqrtIter(a, y)))

\* how far x is from a / x
SqrtGap(a, x) == Let(x, LAMBDA x0 : Abs(Div(a, x0) - x0))

Sqrt(a) ==
    Let(a, LAMBDA v :
        IF v <= 0 THEN 0
        ELSE Let(SqrtIter(v, Max(v, Scale)), LAMBDA r :
             Let3(SqrtGap(v, Max(1, r - 1)), SqrtGap(v, r), SqrtGap(v, r + 1), LAMBDA g0, g1, g2 :
                 IF g0 <= g1 /\ g0 <= g2 THEN Max(1, r - 1)
                 ELSE IF g1 <= g2 THEN r
                 ELSE r + 1)))

\* math.cos on [-pi/2, pi/2]: the Taylor polynomial to x^12
CosPoly(x) ==
    Let(Mul(x, x), LAMBDA x2 :
    Let(Mul(x2, x2), LAMBDA x4 :
    Let(Mul(x4, x2), LAMBDA x6 :
        Scale - x2 \div 2 + (x4 + 12) \div 24 - (x6 + 360) \div 720
          + (Mul(x4, x4) + 20160) \div 40320 - (Mul(x6, x4) + 1814400) \div 3628800
          + (Mul(x6, x6) + 239500800) \div 479001600)))

\* math.sin on [0, pi/2]: the Taylor polynomial to x^11
SinPolyPos(a) ==
    Let(Mul(a, a), LAMBDA x2 :
    Let(Mul(x2, a), LAMBDA x3 :
    Let(Mul(x3, x2), LAMBDA x5 :
    Let(Mul(x5, x2), LAMBDA x7 :
    Let(Mul(x7, x2), LAMBDA x9 :
        a - (x3 + 3) \div 6 + (x5 + 60) \div 120 - (x7 + 2520) \div 5040
          + (x9 + 181440) \div 362880 - (Mul(x9, x2) + 19958400) \div 39916800)))))

\* math.sin on [-pi/2, pi/2]: odd in x
SinPoly(x) == Let(x, LAMBDA v : IF v < 0 THEN -SinPolyPos(-v) ELSE SinPolyPos(v))

\* an angle brought into [-pi, pi] by whole turns
RECURSIVE Reduce(_)
Reduce(x) ==
    Let(x, LAMBDA v :
        IF v > Pi THEN Reduce(v - 2 * Pi)
        ELSE IF v < -Pi THEN Reduce(v + 2 * Pi)
        ELSE v)

\* math.sin and math.cos
Sin(x) ==
    Let(Reduce(x), LAMBDA v :
        IF v > HalfPi THEN Max(0, Min(Scale, SinPoly(Pi - v)))
        ELSE IF v < -HalfPi THEN Min(0, Max(-Scale, SinPoly(-Pi - v)))
        ELSE Max(-Scale, Min(Scale, SinPoly(v))))

Cos(x) ==
    Let(Abs(Reduce(x)), LAMBDA v :
        IF v > HalfPi THEN -Max(0, Min(Scale, CosPoly(Pi - v)))
        ELSE Max(0, Min(Scale, CosPoly(v))))

\* math.tan.  At pi/2 the double cosine is about 6e-17, not zero, and the
\* tangent is a huge finite number: here the cosine is one half unit.
Tan(x) ==
    Let(x, LAMBDA v :
    Let2(Sin(v), Cos(v), LAMBDA s, c :
        IF c = 0 THEN 2 * s * Base ELSE Div(s, c)))

\* math.atan on [0, tan(pi/12)]: the Taylor polynomial to z^9
AtanPoly(z) ==
    Let(z, LAMBDA z1 :
    Let(Mul(z1, z1), LAMBDA z2 :
    Let(Mul(z2, z1), LAMBDA z3 :
    Let(Mul(z3, z2), LAMBDA z5 :
    Let(Mul(z5, z2), LAMBDA z7 :
        z1 - (z3 + 1) \div 3 + (z5 + 2) \div 5 - (z7 + 3) \div 7 + (Mul(z7, z2) + 4) \div 9)))))

\* math.atan on [0, 1]: above tan(pi/12) it is pi/6 + atan((z sqrt3 - 1) / (sqrt3 + z))
AtanUnit(z) ==
    Let2(z, 1732051, LAMBDA z1, sqrt3 :
        IF z1 <= 267949 THEN AtanPoly(z1)
        ELSE Let(Div(Mul(z1, sqrt3) - Scale, sqrt3 + z1), LAMBDA w :
                 IF w < 0 THEN 523599 - AtanPoly(-w) ELSE 523599 + AtanPoly(w)))

\* math.atan2(y, x)
Atan2(y, x) ==
    Let2(y, x, LAMBDA y0, x0 :
        IF x0 = 0 /\ y0 = 0 THEN 0
        ELSE IF Abs(y0) <= Abs(x0)
             THEN Let(AtanUnit(Div(Abs(y0), Abs(x0))), LAMBDA a :
                      IF x0 > 0 THEN Sgn(y0) * a ELSE Sgn(y0) * (Pi - a))
             ELSE Let(AtanUnit(Div(Abs(x0), Abs(y0))), LAMBDA a :
                      IF x0 > 0 THEN Sgn(y0) * (HalfPi - a) ELSE Sgn(y0) * (HalfPi + a)))

\* math.radians and math.degrees
Radians(d) == Let(d, LAMBDA v : IF v < 0 THEN -(Mul(-v, Pi) \div 180) ELSE Mul(v, Pi) \div 180)

Degrees(r) == Div(r * 180, Pi)

\* ----------------------------------------------------------------- matrices
\* numpy arrays: a vector is a tuple, a matrix a tuple of rows.

\* the tuple <<f(1), ..., f(n)>>
Tab(n, f(_)) == [k \in 1..n |-> f(k)] \o <<>>

\* the n x m matrix of the entries f(i, j)
Mat(n, m, f(_, _)) == Let(m, LAMBDA m0 : Tab(n, LAMBDA i : Tab(m0, LAMBDA j : f(i, j))))

\* the sum of the entries of a tuple
RECURSIVE SumTo(_, _)
SumTo(h, k) == Let(k, LAMBDA k0 : IF k0 = 0 THEN 0 ELSE h[k0] + SumTo(h, k0 - 1))

SeqSum(h) == Let(h, LAMBDA h0 : SumTo(h0, Len(h0)))

Dot(u, v) == Let2(u, v, LAMBDA u0, v0 : SeqSum(Tab(Len(u0), LAMBDA k : Mul(u0[k], v0[k]))))

\* A.T
Transpose(A) == Let(A, LAMBDA A0 : Mat(Len(A0[1]), Len(A0), LAMBDA j, i : A0[i][j]))

\* A @ B
MatMul(A, B) ==
    Let2(A, Transpose(B), LAMBDA A0, Bt : Mat(Len(A0), Len(Bt), LAMBDA i, j : Dot(A0[i], Bt[j])))

\* A @ v
MatVec(A, v) == Let2(A, v, LAMBDA A0, v0 : Tab(Len(A0), LAMBDA i : Dot(A0[i], v0)))

MatAdd(A, B) ==
    Let2(A, B, LAMBDA A0, B0 : Mat(Len(A0), Len(A0[1]), LAMBDA i, j : A0[i][j] + B0[i][j]))

MatSub(A, B) ==
    Let2(A, B, LAMBDA A0, B0 : Mat(Len(A0), Len(A0[1]), LAMBDA i, j : A0[i][j] - B0[i][j]))

VecAdd(u, v) == Let2(u, v, LAMBDA u0, v0 : Tab(Len(u0), LAMBDA i : u0[i] + v0[i]))

\* A * c, c a fixed-point scalar
MatScale(A, c) ==
    Let2(A, c, LAMBDA A0, c0 : Mat(Len(A0), Len(A0[1]), LAMBDA i, j : Mul(A0[i][j], c0)))

\* np.eye(n) and np.zeros
Eye(n) == Mat(n, n, LAMBDA i, j : IF i = j THEN Scale ELSE 0)

Zeros(n) == Tab(n, LAMBDA i : 0)

ZeroMat(n, m) == Mat(n, m, LAMBDA i, j : 0)

\* the determinant of a 3x3 matrix
Det3(S) ==
    Mul(S[1][1], Mul(S[2][2], S[3][3]) - Mul(S[2][3], S[3][2]))
      - Mul(S[1][2], Mul(S[2][1], S[3][3]) - Mul(S[2][3], S[3][1]))
      + Mul(S[1][3], Mul(S[2][1], S[3][2]) - Mul(S[2][2], S[3][1]))

\* the cofactor (i, j) of a 3x3 matrix
Cofactor(S, i, j) ==
    Let2(IF i = 1 THEN 2 ELSE 1, IF i = 3 THEN 2 ELSE 3, LAMBDA r1, r2 :
    Let2(IF j = 1 THEN 2 ELSE 1, IF j = 3 THEN 2 ELSE 3, LAMBDA c1, c2 :
    Let(Mul(S[r1][c1], S[r2][c2]) - Mul(S[r1][c2], S[r2][c1]), LAMBDA m :
        IF (i + j) % 2 = 0 THEN m ELSE -m)))

\* np.linalg.inv of a 1x1 or 3x3 matrix: the adjugate over the determinant.
\* A singular matrix (numpy raises LinAlgError) gives <<>>.
Inv(S) ==
    Let(S, LAMBDA S0 :
        IF Len(S0) = 1
        THEN (IF S0[1][1] = 0 THEN <<>> ELSE <<<<Div(Scale, S0[1][1])>>>>)
        ELSE Let(Det3(S0), LAMBDA d :
                 IF d = 0 THEN <<>>
                 ELSE Mat(3, 3, LAMBDA i, j : Div(Cofactor(S0, j, i), d))))

\* the decimal n / d as a fixed-point number: Dec(3, 10) is 0.3
Dec(n, d) == (n * Scale) \div d

\* ---------------------------------------------------------------- doubles
\* Where the size of a double matters, a number is a record [e, n]:
\*   e = 0  the real n / Scale, as above;
\*   e = 1  the real (n / Scale) * 2^600 with n # 0: a finite double that
\*          absorbs every number of e = 0 added to it, and whose product
\*          with another such double is beyond the largest double;
\*   e = 2  inf (n = 1) and -inf (n = -1);
\*   e = 3  nan.
\* The operators are those of IEEE arithmetic on these numbers, as Python
\* and numpy apply them to float and float64 scalars: a float64 divided by
\* zero is inf or nan, with a warning and without an exception.
Fixed(n) == [e |-> 0, n |-> n]

Huge(n) == [e |-> 1, n |-> n]

Inf(sign) == [e |-> 2, n |-> sign]

NaN == [e |-> 3, n |-> 0]

IsZero(a) == Let(a, LAMBDA x : x.e = 0 /\ x.n = 0)

FNeg(a) == [a EXCEPT !.n = -@]

\* a < b
FLess(a, b) ==
    Let2(a, b, LAMBDA x, y :
        IF x.e = 3 \/ y.e = 3 THEN FALSE
        ELSE IF x.e = y.e THEN x.n < y.n
        ELSE IF x.e > y.e THEN x.n < 0
        ELSE y.n > 0)

\* a + b
FAdd(a, b) ==
    Let2(a, b, LAMBDA x, y :
        IF x.e = 3 \/ y.e = 3 THEN NaN
        ELSE IF x.e > y.e THEN x
        ELSE IF x.e < y.e THEN y
        ELSE IF x.e = 2 THEN (IF x.n = y.n THEN x ELSE NaN)
        ELSE IF x.n + y.n = 0 THEN Fixed(0)
        ELSE [x EXCEPT !.n = @ + y.n])

\* a - b
FSub(a, b) == FAdd(a, FNeg(b))

\* a * b
FMul(a, b) ==
    Let2(a, b, LAMBDA x, y :
        IF x.e = 3 \/ y.e = 3 THEN NaN
        ELSE IF x.n = 0 \/ y.n = 0 THEN (IF x.e = 2 \/ y.e = 2 THEN NaN ELSE Fixed(0))
        ELSE IF x.e + y.e >= 2 THEN Inf(Sgn(x.n) * Sgn(y.n))
        ELSE Let(Mul(x.n, y.n), LAMBDA n : IF n = 0 THEN Fixed(0) ELSE [e |-> x.e + y.e, n |-> n]))

\* a / b, a a float64
FDiv(a, b) ==
    Let2(a, b, LAMBDA x, y :
        IF x.e = 3 \/ y.e = 3 THEN NaN
        ELSE IF x.e = 2 THEN (IF y.e = 2 THEN NaN ELSE Inf(x.n * Sgn(y.n)))
        ELSE IF y.e = 2 THEN Fixed(0)
        ELSE IF y.n = 0 THEN (IF x.n = 0 THEN NaN ELSE Inf(Sgn(x.n)))
        ELSE IF x.e < y.e THEN Fixed(0)
        ELSE Let(Div(x.n, y.n), LAMBDA n : IF n = 0 THEN Fixed(0) ELSE [e |-> x.e - y.e, n |-> n]))

\* math.sqrt(a) of a sum of squares: such a sum is never of e = 1
FSqrt(a) ==
    Let(a, LAMBDA x :
        CASE x.e = 0 -> Fixed(Sqrt(x.n))
          [] x.e >= 2 -> x)

\* math.radians(a)
FRadians(a) == Let(a, LAMBDA x : IF x.e <= 1 THEN [x EXCEPT !.n = Radians(@)] ELSE x)

\* t[1] + t[2] + ... from left to right
RECURSIVE FSumTo(_, _)
FSumTo(t, k) == Let(k, LAMBDA k0 : IF k0 = 1 THEN t[1] ELSE FAdd(FSumTo(t, k0 - 1), t[k0]))

FSum(t) == Let(t, LAMBDA t0 : FSumTo(t0, Len(t0)))

\* math.sqrt(v[0] * v[0] + v[1] * v[1] + ...)
FNorm(v) == Let(v, LAMBDA v0 : FSqrt(FSum(Tab(Len(v0), LAMBDA i : FMul(v0[i], v0[i])))))

\* ------------------------------------------------- ExtendedKalmanFilter
\* An ExtendedKalmanFilter object is a record of its fields:
\*   state  [roll, pitch, yaw, bias_x, bias_y, bias_z] (1-based here)
\*   P      the 6x6 state covariance
\*   Q      the 6x6 process noise
\*   R_accel, R_mag  the measurement noise covariances
\*   accel_trust_factor, mag_trust_factor, update_count
\* and three fields that record what a call did, for the properties below:
\*   log    the methods of the filter called since the caller cleared it,
\*          each with the attitude noise Q[0,0] it found
\*   raised TRUE when the last method ended in an exception
\*   predict_dt  the dt the last predict since the construction or the last
\*          reset was given, <<>> before the first

\* Q with the attitude block eye(3) * level and the rest as it is
QBlocksAttitudeOnly(Q, level) ==
    Let2(Q, level, LAMBDA Q0, attitude :
        Mat(6, 6, LAMBDA i, j :
            IF i <= 3 /\ j <= 3 THEN (IF i = j THEN attitude ELSE 0)
            ELSE Q0[i][j]))

\* Q with the attitude block eye(3) * level and the bias block
\* eye(3) * level * 0.001, the other two blocks as they are
QBlocks(Q, level) ==
    Let3(Q, level, Mul(level, Dec(1, 1000)), LAMBDA Q0, attitude, bias :
        Mat(6, 6, LAMBDA i, j :
            IF i <= 3 /\ j <= 3 THEN (IF i = j THEN attitude ELSE 0)
            ELSE IF i > 3 /\ j > 3 THEN (IF i = j THEN bias ELSE 0)
            ELSE Q0[i][j]))

\* R_accel = eye(3) * accel_noise ** 2 and R_mag = eye(1) * mag_noise ** 2
R_accel(accel_noise) == Let(accel_noise, LAMBDA n : MatScale(Eye(3), Mul(n, n)))

R_mag(mag_noise) == Let(mag_noise, LAMBDA n : MatScale(Eye(1), Mul(n, n)))

\* ExtendedKalmanFilter(process_noise, accel_noise, mag_noise=mag_noise)
EKF_new(process_noise, accel_noise, mag_noise) ==
    [state |-> Zeros(6),
     P |-> Eye(6),
     Q |-> QBlocks(ZeroMat(6, 6), process_noise),
     R_accel |-> R_accel(accel_noise),
     R_mag |-> R_mag(mag_noise),
     accel_trust_factor |-> Scale,
     mag_trust_factor |-> Scale,
     update_count |-> 0,
     log |-> <<>>,
     raised |-> FALSE,
     predict_dt |-> <<>>]

\* ExtendedKalmanFilter(process_noise): accel_noise = 0.1, mag_noise = 0.05
EKF_init(process_noise) == EKF_new(process_noise, Dec(1, 10), Dec(5, 100))

\* the filter e at the entry of its method m
Called(e, m) ==
    Let(e, LAMBDA e0 : [e0 EXCEPT !.log = Append(@, <<m, e0.Q[1][1]>>), !.raised = FALSE])

\* _normalize_angle: the two while loops
RECURSIVE NormDown(_)
NormDown(angle) == Let(angle, LAMBDA a : IF a > Pi THEN NormDown(a - 2 * Pi) ELSE a)

RECURSIVE NormUp(_)
NormUp(angle) == Let(angle, LAMBDA a : IF a < -Pi THEN NormUp(a + 2 * Pi) ELSE a)

\* a normalization without the loop that adds whole turns
NormalizeDownOnly(angle) == NormDown(angle)

normalize_angle(angle) == NormUp(NormDown(angle))

\* _normalize_angle one loop test and one loop body at a time, on doubles of
\* any size.
\* angle > math.pi and angle < -math.pi
Above(d) == FLess(Fixed(Pi), d)

Below(d) == FLess(d, Fixed(-Pi))

\* a loop body that takes half a turn off
SubHalfTurn(d) == FSub(d, Fixed(Pi))

\* angle -= 2 * math.pi and angle += 2 * math.pi
SubTurn(d) == FSub(d, Fixed(2 * Pi))

AddTurn(d) == FAdd(d, Fixed(2 * Pi))

\* the locals of a call: pc is the place it is at ("down" at the test of the
\* first loop, "down_body" in its body, "up" and "up_body" for the second,
\* "done" when it has returned angle), arg its argument, and first the
\* argument of the call whose result this call was given, if it was
Idle == [pc |-> "idle", arg |-> Fixed(0), angle |-> Fixed(0), first |-> <<>>]

Entered(x, first) == [pc |-> "down", arg |-> x, angle |-> x, first |-> first]

\* while angle > math.pi: angle -= 2 * math.pi
StepDown(f) ==
    IF f.pc = "down_body" THEN [f EXCEPT !.angle = SubTurn(@), !.pc = "down"]
    ELSE IF Above(f.angle) THEN [f EXCEPT !.pc = "down_body"]
    ELSE [f EXCEPT !.pc = "up"]

\* while angle < -math.pi: angle += 2 * math.pi; return angle
StepUp(f) ==
    IF f.pc = "up_body" THEN [f EXCEPT !.angle = AddTurn(@), !.pc = "up"]
    ELSE IF Below(f.angle) THEN [f EXCEPT !.pc = "up_body"]
    ELSE [f EXCEPT !.pc = "done"]

\* the three angles of a state vector normalized, the biases as they are
NormalizeState(st) ==
    Let(st, LAMBDA st0 : Tab(6, LAMBDA i : IF i <= 3 THEN normalize_angle(st0[i]) ELSE st0[i]))

\* abs(cos_pitch) < 0.01 is replaced by 0.01 with the sign of cos_pitch
GuardCos(cos_pitch) ==
    Let(cos_pitch, LAMBDA c :
        IF Abs(c) < Dec(1, 100)
        THEN (IF c >= 0 THEN Dec(1, 100) ELSE -Dec(1, 100))
        ELSE c)

\* the rows of the Jacobian from the sines and cosines of the state
JacobianRows(sin_roll, cos_roll, sin_pitch, cos_pitch, tan_pitch, gx, gy, gz, dt) ==
    Let(Mul(cos_pitch, cos_pitch), LAMBDA cos2 :
        << <<Scale + Mul(dt, Mul(Mul(cos_roll, tan_pitch), gy) - Mul(Mul(sin_roll, tan_pitch), gz)),
             Mul(dt, Mul(Div(sin_roll, cos2), gy) + Mul(Div(cos_roll, cos2), gz)),
             0, -dt, Mul(Mul(-dt, sin_roll), tan_pitch), Mul(Mul(-dt, cos_roll), tan_pitch)>>,
           <<Mul(dt, Mul(-sin_roll, gy) - Mul(cos_roll, gz)),
             Scale, 0, 0, Mul(-dt, cos_roll), Mul(dt, sin_roll)>>,
           <<Mul(dt, Mul(Div(cos_roll, cos_pitch), gy) - Mul(Div(sin_roll, cos_pitch), gz)),
             Mul(dt, Mul(Div(Mul(sin_roll, sin_pitch), cos2), gy)
                       + Mul(Div(Mul(cos_roll, sin_pitch), cos2), gz)),
             Scale, 0, Div(Mul(-dt, sin_roll), cos_pitch), Div(Mul(-dt, cos_roll), cos_pitch)>>,
           <<0, 0, 0, Scale, 0, 0>>,
           <<0, 0, 0, 0, Scale, 0>>,
           <<0, 0, 0, 0, 0, Scale>> >>)

\* _compute_state_jacobian: reads the state predict has already advanced
compute_state_jacobian(st, gx, gy, gz, dt) ==
    Let2(st[1], st[2], LAMBDA roll, pitch :
    Let2(Sin(roll), Cos(roll), LAMBDA sin_roll, cos_roll :
    Let3(Sin(pitch), GuardCos(Cos(pitch)), Tan(pitch), LAMBDA sin_pitch, cos_pitch, tan_pitch :
        JacobianRows(sin_roll, cos_roll, sin_pitch, cos_pitch, tan_pitch, gx, gy, gz, dt))))

\* an Euler step that moves the roll bias by the roll rate too
AdvanceWithBias(state, gx_corrected, gy_corrected, gz_corrected, dt) ==
    Let2(state, Mul(gx_corrected, dt), LAMBDA st0, drift :
        [k \in 1..6 |-> IF k = 4 THEN st0[k] + drift
                        ELSE IF k = 1 THEN normalize_angle(st0[k] + drift)
                        ELSE st0[k]] \o <<>>)

\* droll, dpitch and dyaw of predict: the Euler rates at the state for the
\* corrected gyro rates
EulerRates(state, gx_corrected, gy_corrected, gz_corrected) ==
    Let2(Sin(state[1]), Cos(state[1]), LAMBDA sin_roll, cos_roll :
    Let2(GuardCos(Cos(state[2])), Tan(state[2]), LAMBDA cos_pitch, tan_pitch :
        << gx_corrected + Mul(Mul(sin_roll, tan_pitch), gy_corrected)
                        + Mul(Mul(cos_roll, tan_pitch), gz_corrected),
           Mul(cos_roll, gy_corrected) - Mul(sin_roll, gz_corrected),
           Mul(Div(sin_roll, cos_pitch), gy_corrected) + Mul(Div(cos_roll, cos_pitch), gz_corrected) >>))

\* the state of predict after its Euler step of the rates over dt
Advance(state, gx_corrected, gy_corrected, gz_corrected, dt) ==
    Let(EulerRates(state, gx_corrected, gy_corrected, gz_corrected), LAMBDA rate :
        NormalizeState([state EXCEPT ![1] = @ + Mul(rate[1], dt),
                                     ![2] = @ + Mul(rate[2], dt),
                                     ![3] = @ + Mul(rate[3], dt)]))

\* the locals of a predict call at its Euler rates: the state and the
\* corrected gyro rates g it found, and the rates out it computed from them
NoRates == [state |-> <<>>, g |-> <<>>, out |-> <<>>]

\* predict(gyro_x, gyro_y, gyro_z, dt): gyro in degrees per second
predict(e0, gyro_x, gyro_y, gyro_z, dt) ==
    Let2(Called(e0, "predict"), dt, LAMBDA e, dt0 :
    Let3(Radians(gyro_x) - e.state[4], Radians(gyro_y) - e.state[5], Radians(gyro_z) - e.state[6],
         LAMBDA gx_corrected, gy_corrected, gz_corrected :
    Let(Advance(e.state, gx_corrected, gy_corrected, gz_corrected, dt0), LAMBDA st :
    Let(compute_state_jacobian(st, gx_corrected, gy_corrected, gz_corrected, dt0), LAMBDA F :
        [e EXCEPT !.state = st,
                  !.P = MatAdd(MatMul(MatMul(F, e.P), Transpose(F)), e.Q),
                  !.predict_dt = <<dt0>>]))))

\* a trust whose bands take their lower boundary
AccelTrustInclusive(norm) ==
    Let(Abs(norm - Scale), LAMBDA accel_magnitude_error :
        IF accel_magnitude_error >= Dec(5, 10) THEN Dec(3, 10)
        ELSE IF accel_magnitude_error >= Dec(2, 10) THEN Dec(7, 10)
        ELSE Scale)

\* the trust in the accelerometer for a magnitude norm of the acceleration
AccelTrust(norm) ==
    Let(Abs(norm - Scale), LAMBDA accel_magnitude_error :
        IF accel_magnitude_error > Dec(5, 10) THEN Dec(3, 10)
        ELSE IF accel_magnitude_error > Dec(2, 10) THEN Dec(7, 10)
        ELSE Scale)

\* sqrt(x ** 2 + y ** 2 + z ** 2)
Norm3(x, y, z) == Let3(x, y, z, LAMBDA x0, y0, z0 : Sqrt(Mul(x0, x0) + Mul(y0, y0) + Mul(z0, z0)))

\* a rejection that takes the threshold itself too
AccelRejectedAtThreshold(norm) == norm <= Dec(1, 10)

\* the accelerometer is rejected when its magnitude is under 0.1
AccelRejected(norm) == norm < Dec(1, 10)

\* the correction both update methods end with, for the residual y, the
\* measurement Jacobian H and the measurement noise R:
\*   S = H P H^T + R, K = P H^T S^-1, state += K y, angles normalized,
\*   P = (I - K H) P; np.linalg.inv raises on a singular S
Correct(e, y, H, R) ==
    Let2(e, H, LAMBDA e0, H0 :
    Let(Inv(MatAdd(MatMul(MatMul(H0, e0.P), Transpose(H0)), R)), LAMBDA Sinv :
        IF Sinv = <<>> THEN [e0 EXCEPT !.raised = TRUE]
        ELSE Let(MatMul(MatMul(e0.P, Transpose(H0)), Sinv), LAMBDA K :
                 [e0 EXCEPT !.state = NormalizeState(VecAdd(e0.state, MatVec(K, y))),
                            !.P = MatMul(MatSub(Eye(6), MatMul(K, H0)), e0.P)])))

\* the measurement Jacobian of update_accel and of update_magnetometer
H_accel ==
    << <<Scale, 0, 0, 0, 0, 0>>,
       <<0, Scale, 0, 0, 0, 0>>,
       <<0, 0, 0, 0, 0, 0>> >>

\* a heading Jacobian that observes the roll
H_magRoll == << <<Scale, 0, 0, 0, 0, 0>> >>

H_mag == << <<0, 0, Scale, 0, 0, 0>> >>

\* a residual whose measured roll is atan2(az, ay)
AccelResidualSwapped(state, ax, ay, az) ==
    Let2(Atan2(az, ay), Atan2(-ax, Sqrt(Mul(ay, ay) + Mul(az, az))),
         LAMBDA measured_roll, measured_pitch :
             <<normalize_angle(measured_roll - state[1]),
               normalize_angle(measured_pitch - state[2]),
               0>>)

\* the residual of update_accel for the normalized acceleration
AccelResidual(state, ax, ay, az) ==
    Let2(Atan2(ay, az), Atan2(-ax, Sqrt(Mul(ay, ay) + Mul(az, az))),
         LAMBDA measured_roll, measured_pitch :
             <<normalize_angle(measured_roll - state[1]),
               normalize_angle(measured_pitch - state[2]),
               0>>)

\* update_accel(accel_x, accel_y, accel_z): accelerations in g
update_accel(e0, accel_x, accel_y, accel_z) ==
    Let2(Called(e0, "update_accel"), Norm3(accel_x, accel_y, accel_z), LAMBDA e, norm :
        IF AccelRejected(norm) THEN e
        ELSE Let3(Div(accel_x, norm), Div(accel_y, norm), Div(accel_z, norm), LAMBDA ax, ay, az :
             Let(AccelTrust(norm), LAMBDA trust :
                 Correct([e EXCEPT !.accel_trust_factor = trust],
                         AccelResidual(e.state, ax, ay, az),
                         H_accel,
                         MatScale(e.R_accel, Div(Scale, Max(Dec(1, 10), trust)))))))

\* a residual that is the difference as it comes
MagResidualRaw(state, mag_angle) ==
    Let(normalize_angle(Radians(mag_angle)), LAMBDA measured_yaw :
        <<measured_yaw - state[3]>>)

\* the residual of update_magnetometer for the heading in degrees
MagResidual(state, mag_angle) ==
    Let(normalize_angle(Radians(mag_angle)), LAMBDA measured_yaw :
        <<normalize_angle(measured_yaw - state[3])>>)

\* update_magnetometer(mag_angle): the heading in degrees
update_magnetometer(e0, mag_angle) ==
    Let(Called(e0, "update_magnetometer"), LAMBDA e :
        Correct(e,
                MagResidual(e.state, mag_angle),
                H_mag,
                MatScale(e.R_mag, Div(Scale, Max(Dec(1, 10), e.mag_trust_factor)))))

\* get_euler_angles: (roll, pitch, yaw) in degrees
get_euler_angles(e) == <<Degrees(e.state[1]), Degrees(e.state[2]), Degrees(e.state[3])>>

\* get_gyro_bias: (bias_x, bias_y, bias_z) in degrees per second
get_gyro_bias(e) == <<Degrees(e.state[4]), Degrees(e.state[5]), Degrees(e.state[6])>>

\* get_state_covariance: the standard deviations of the angles in degrees;
\* <<>> when math.sqrt raises ValueError on a negative P[i, i]
get_state_covariance(e) ==
    Let(e, LAMBDA e0 :
        IF \E i \in 1..3 : e0.P[i][i] < 0 THEN <<>>
        ELSE Tab(3, LAMBDA i : Degrees(Sqrt(e0.P[i][i]))))

\* the filter after its accessor m has returned result or, for <<>>, raised
Returned(e, m, result) == [Called(e, m) EXCEPT !.raised = (result = <<>>)]

\* a clamp that forgets the lower bound
ClampTrustAbove(trust_factor) == Min(Scale, trust_factor)

\* set_mag_trust(trust_factor)
ClampTrust(trust_factor) == Max(0, Min(Scale, trust_factor))

set_mag_trust(e0, trust_factor) ==
    [Called(e0, "set_mag_trust") EXCEPT !.mag_trust_factor = ClampTrust(trust_factor)]

\* set_process_noise(noise_level): the level is stored as given
set_process_noise(e0, noise_level) ==
    Let(Called(e0, "set_process_noise"), LAMBDA e : [e EXCEPT !.Q = QBlocks(e.Q, noise_level)])

\* a reset that leaves the covariance
ResetKeepsP(e0) ==
    [Called(e0, "reset") EXCEPT !.state = Zeros(6),
                                !.update_count = 0,
                                !.accel_trust_factor = Scale,
                                !.mag_trust_factor = Scale,
                                !.predict_dt = <<>>]

\* reset(): Q is left as it is
reset(e0) ==
    [Called(e0, "reset") EXCEPT !.state = Zeros(6),
                                !.P = Eye(6),
                                !.update_count = 0,
                                !.accel_trust_factor = Scale,
                                !.mag_trust_factor = Scale,
                                !.predict_dt = <<>>]

\* --------------------------------------- AdaptiveEKFAttitudeEstimator
\* An AdaptiveEKFAttitudeEstimator object is a record of its fields: ekf,
\* accel_history and update_count.

max_history_len == 10

\* AdaptiveEKFAttitudeEstimator(): process_noise = 0.01
Estimator_init ==
    [ekf |-> EKF_init(Dec(1, 100)),
     accel_history |-> <<>>,
     update_count |-> 0]

\* np.std of a non-empty list of non-negative numbers:
\* sqrt(mean(abs(x - mean(x)) ** 2))
Std(h) ==
    Let(h, LAMBDA h0 :
    Let(Len(h0), LAMBDA n :
    Let((SeqSum(h0) + n \div 2) \div n, LAMBDA mean :
        Sqrt((SeqSum(Tab(n, LAMBDA k : Mul(h0[k] - mean, h0[k] - mean))) + n \div 2) \div n))))

\* a noise level whose bands take their lower boundary
NoiseLevelInclusive(accel_std) ==
    Let(accel_std, LAMBDA s :
        IF s >= Dec(3, 10) THEN Dec(5, 100)
        ELSE IF s >= Dec(1, 10) THEN Dec(2, 100)
        ELSE Dec(1, 100))

\* the process noise for a standard deviation of the buffered magnitudes
NoiseLevel(accel_std) ==
    Let(accel_std, LAMBDA s :
        IF s > Dec(3, 10) THEN Dec(5, 100)
        ELSE IF s > Dec(1, 10) THEN Dec(2, 100)
        ELSE Dec(1, 100))

\* a history that evicts its newest entry: pop() for pop(0)
PushHistoryPopNewest(h, accel_mag) ==
    Let(Append(h, accel_mag), LAMBDA h1 :
        IF Len(h1) > max_history_len THEN SubSeq(h1, 1, max_history_len) ELSE h1)

\* accel_history.append(accel_mag), then pop(0) over max_history_len entries
PushHistory(h, accel_mag) ==
    Let(Append(h, accel_mag), LAMBDA h1 : IF Len(h1) > max_history_len THEN Tail(h1) ELSE h1)

\* an adaptation that starts one sample early
AdaptReadyAtTwo(h) == Len(h) >= 2

\* the history length from which the noise is adapted
AdaptReady(h) == Len(h) >= 3

\* _adapt_process_noise(ax, ay, az)
adapt_process_noise(est0, ax, ay, az) ==
    Let2(est0, Norm3(ax, ay, az), LAMBDA e, accel_mag :
    Let(PushHistory(e.accel_history, accel_mag), LAMBDA h :
        [e EXCEPT !.accel_history = h,
                  !.ekf = IF AdaptReady(h)
                          THEN set_process_noise(@, NoiseLevel(Std(h)))
                          ELSE @]))

\* A sample is a record: accel and gyro are triples, mag_angle is <<>> for
\* None and <<angle>> for an angle in degrees, mag_valid a boolean, dt seconds.

\* an update that adapts the noise before it predicts
UpdateStepsAdaptFirst(est0, s) ==
    Let(adapt_process_noise(est0, s.accel[1], s.accel[2], s.accel[3]), LAMBDA est1 :
    Let(predict(est1.ekf, s.gyro[1], s.gyro[2], s.gyro[3], s.dt), LAMBDA e1 :
    Let(update_accel(e1, s.accel[1], s.accel[2], s.accel[3]), LAMBDA e2 :
        [est1 EXCEPT !.ekf = IF s.mag_valid /\ s.mag_angle # <<>>
                             THEN update_magnetometer(e2, s.mag_angle[1])
                             ELSE e2,
                     !.update_count = @ + 1])))

\* the order of the steps of update: an exception of a step ends the call
UpdateSteps(est0, s) ==
    Let(predict(est0.ekf, s.gyro[1], s.gyro[2], s.gyro[3], s.dt), LAMBDA e1 :
    Let(update_accel(e1, s.accel[1], s.accel[2], s.accel[3]), LAMBDA e2 :
        IF e2.raised THEN [est0 EXCEPT !.ekf = e2]
        ELSE Let(IF s.mag_valid /\ s.mag_angle # <<>>
                 THEN update_magnetometer(e2, s.mag_angle[1])
                 ELSE e2, LAMBDA e3 :
                 IF e3.raised THEN [est0 EXCEPT !.ekf = e3]
                 ELSE [adapt_process_noise([est0 EXCEPT !.ekf = e3],
                                           s.accel[1], s.accel[2], s.accel[3])
                           EXCEPT !.update_count = @ + 1])))

\* update(accel_x, accel_y, accel_z, gyro_x, gyro_y, gyro_z, mag_angle, mag_valid, dt)
update(est0, s) == UpdateSteps([est0 EXCEPT !.ekf.log = <<>>], s)

\* AdaptiveEKFAttitudeEstimator.set_mag_trust(trust_factor)
Estimator_set_mag_trust(est0, trust_factor) ==
    [est0 EXCEPT !.ekf = set_mag_trust([@ EXCEPT !.log = <<>>], trust_factor)]

\* AdaptiveEKFAttitudeEstimator.reset()
Estimator_reset(est0) ==
    [est0 EXCEPT !.ekf = reset([@ EXCEPT !.log = <<>>]),
                 !.accel_history = <<>>,
                 !.update_count = 0]

\* --------------------------------------------------- MadgwickQuaternion
\* A MadgwickQuaternion object is a record of its fields beta, sample_period,
\* q (four doubles: w, x, y, z) and update_count, and of one field that
\* records what a call did, for the properties below:
\*   norm   the norm of the integrated quaternion that the last update
\*          divided by (1 before the first update)

\* MadgwickQuaternion(beta): beta is stored as given, sample_freq is 10.0
Madgwick_init(beta) ==
    [beta |-> beta,
     sample_period |-> Div(Scale, 10 * Scale),
     q |-> <<Fixed(Scale), Fixed(0), Fixed(0), Fixed(0)>>,
     update_count |-> 0,
     norm |-> Fixed(Scale)]

\* the gradient s0, s1, s2, s3 of the objective function at q for the
\* normalized acceleration a
Gradient(q, a) ==
    Let3(q, a, Tab(4, LAMBDA i : FMul(q[i], q[i])), LAMBDA q0, a0, qq :
    Let3(Tab(4, LAMBDA i : FMul(Fixed(2 * Scale), q0[i])),
         Tab(4, LAMBDA i : FMul(Fixed(4 * Scale), q0[i])),
         Tab(4, LAMBDA i : FMul(Fixed(8 * Scale), q0[i])), LAMBDA q2, q4, q8 :
        << FSum(<<FMul(q4[1], qq[3]), FMul(q2[3], a0[1]),
                  FMul(q4[1], qq[2]), FNeg(FMul(q2[2], a0[2]))>>),
           FSum(<<FMul(q4[2], qq[4]), FNeg(FMul(q2[4], a0[1])),
                  FMul(FMul(Fixed(4 * Scale), qq[1]), q0[2]), FNeg(FMul(q2[1], a0[2])),
                  FNeg(q4[2]), FMul(q8[2], qq[2]), FMul(q8[2], qq[3]), FMul(q4[2], a0[3])>>),
           FSum(<<FMul(FMul(Fixed(4 * Scale), qq[1]), q0[3]), FMul(q2[1], a0[1]),
                  FMul(q4[3], qq[4]), FNeg(FMul(q2[4], a0[2])),
                  FNeg(q4[3]), FMul(q8[3], qq[2]), FMul(q8[3], qq[3]), FMul(q4[3], a0[3])>>),
           FSum(<<FMul(FMul(Fixed(4 * Scale), qq[2]), q0[4]), FNeg(FMul(q2[2], a0[1])),
                  FMul(FMul(Fixed(4 * Scale), qq[3]), q0[4]), FNeg(FMul(q2[3], a0[2]))>>) >>))

\* the gradient divided by its norm, if that is above zero
NormalizedGradient(q, a) ==
    Let(Gradient(q, a), LAMBDA s :
    Let(FNorm(s), LAMBDA norm :
        IF FLess(Fixed(0), norm) THEN Tab(4, LAMBDA i : FDiv(s[i], norm)) ELSE s))

\* qDot1 .. qDot4: the derivative of q under the rates g (radians per second)
QDot(q, g) ==
    Let3(q, g, Fixed(Scale \div 2), LAMBDA q0, g0, half :
        << FMul(half, FSum(<<FMul(FNeg(q0[2]), g0[1]), FNeg(FMul(q0[3], g0[2])),
                             FNeg(FMul(q0[4], g0[3]))>>)),
           FMul(half, FSum(<<FMul(q0[1], g0[1]), FMul(q0[3], g0[3]), FNeg(FMul(q0[4], g0[2]))>>)),
           FMul(half, FSum(<<FMul(q0[1], g0[2]), FNeg(FMul(q0[2], g0[3])), FMul(q0[4], g0[1])>>)),
           FMul(half, FSum(<<FMul(q0[1], g0[3]), FMul(q0[2], g0[2]), FNeg(FMul(q0[3], g0[1]))>>)) >>)

\* self.q[i] = qi / norm for the integrated quaternion qi
Store(m, qi) ==
    Let2(qi, FNorm(qi), LAMBDA q0, norm :
        [m EXCEPT !.q = Tab(4, LAMBDA i : FDiv(q0[i], norm)), !.norm = norm])

\* _update_imu_gyro_only(gx, gy, gz, dt)
update_imu_gyro_only(m, g, dt) ==
    Let3(m, QDot(m.q, g), dt, LAMBDA m0, qDot, dt0 :
        Store(m0, Tab(4, LAMBDA i : FAdd(m0.q[i], FMul(qDot[i], dt0)))))

\* the branch of update for an acceleration of norm above zero
update_imu(m, accel, norm, g, sample_period) ==
    Let3(m, Tab(3, LAMBDA i : FDiv(accel[i], norm)), sample_period, LAMBDA m0, a, dt0 :
    Let3(NormalizedGradient(m0.q, a), QDot(m0.q, g), Fixed(m0.beta), LAMBDA s, qDot, beta :
        [Store(m0, Tab(4, LAMBDA i :
                   FAdd(m0.q[i], FMul(FSub(qDot[i], FMul(beta, s[i])), dt0))))
            EXCEPT !.update_count = @ + 1]))

\* update(accel_x, accel_y, accel_z, gyro_x, gyro_y, gyro_z, dt): accel and
\* gyro are triples, dt is <<>> for None
Madgwick_update(m, accel, gyro, dt) ==
    Let3(m, accel, Tab(3, LAMBDA i : FRadians(gyro[i])), LAMBDA m0, accel0, g :
    Let2(IF dt # <<>> THEN dt[1] ELSE Fixed(m0.sample_period), FNorm(accel0),
         LAMBDA sample_period, norm :
             IF IsZero(norm) THEN update_imu_gyro_only(m0, g, sample_period)
             ELSE update_imu(m0, accel0, norm, g, sample_period)))

\* reset()
Madgwick_reset(m) ==
    [m EXCEPT !.q = <<Fixed(Scale), Fixed(0), Fixed(0), Fixed(0)>>, !.update_count = 0]

\* set_beta(beta)
ClampBeta(beta) == Max(Dec(1, 100), Min(Dec(5, 10), beta))

set_beta(m, beta) == [m EXCEPT !.beta = ClampBeta(beta)]

\* ------------------------------------------ Euler angles and quaternions
\* The module functions euler_to_quaternion and quaternion_to_euler: angles
\* in degrees, a quaternion the tuple <<w, x, y, z>>.

\* math.asin on [-1, 1]
Asin(x) == Let(x, LAMBDA v : Atan2(v, Sqrt(Scale - Mul(v, v))))

\* a conversion that takes the whole angles where the code takes the halves
euler_to_quaternion_whole(roll, pitch, yaw) ==
    Let3(Radians(roll), Radians(pitch), Radians(yaw), LAMBDA roll_rad, pitch_rad, yaw_rad :
    Let2(Cos(roll_rad), Sin(roll_rad), LAMBDA cr, sr :
    Let2(Cos(pitch_rad), Sin(pitch_rad), LAMBDA cp, sp :
    Let2(Cos(yaw_rad), Sin(yaw_rad), LAMBDA cy, sy :
        << Mul(Mul(cr, cp), cy) + Mul(Mul(sr, sp), sy),
           Mul(Mul(sr, cp), cy) - Mul(Mul(cr, sp), sy),
           Mul(Mul(cr, sp), cy) + Mul(Mul(sr, cp), sy),
           Mul(Mul(cr, cp), sy) - Mul(Mul(sr, sp), cy) >>))))

\* euler_to_quaternion(roll, pitch, yaw)
euler_to_quaternion(roll, pitch, yaw) ==
    Let3(Radians(roll), Radians(pitch), Radians(yaw), LAMBDA roll_rad, pitch_rad, yaw_rad :
    Let2(Cos(Mul(roll_rad, Dec(5, 10))), Sin(Mul(roll_rad, Dec(5, 10))), LAMBDA cr, sr :
    Let2(Cos(Mul(pitch_rad, Dec(5, 10))), Sin(Mul(pitch_rad, Dec(5, 10))), LAMBDA cp, sp :
    Let2(Cos(Mul(yaw_rad, Dec(5, 10))), Sin(Mul(yaw_rad, Dec(5, 10))), LAMBDA cy, sy :
        << Mul(Mul(cr, cp), cy) + Mul(Mul(sr, sp), sy),
           Mul(Mul(sr, cp), cy) - Mul(Mul(cr, sp), sy),
           Mul(Mul(cr, sp), cy) + Mul(Mul(sr, cp), sy),
           Mul(Mul(cr, cp), sy) - Mul(Mul(sr, sp), cy) >>))))

\* the pitch of quaternion_to_euler for sinp: +-pi/2 from |sinp| = 1 on
PitchOf(sinp) ==
    Let(sinp, LAMBDA s : IF Abs(s) >= Scale THEN Sgn(s) * HalfPi ELSE Asin(s))

\* quaternion_to_euler(w, x, y, z)
quaternion_to_euler(w, x, y, z) ==
    Let2(w, x, LAMBDA w0, x0 :
    Let2(y, z, LAMBDA y0, z0 :
    Let3(Atan2(2 * (Mul(w0, x0) + Mul(y0, z0)), Scale - 2 * (Mul(x0, x0) + Mul(y0, y0))),
         PitchOf(2 * (Mul(w0, y0) - Mul(z0, x0))),
         Atan2(2 * (Mul(w0, z0) + Mul(x0, y0)), Scale - 2 * (Mul(y0, y0) + Mul(z0, z0))),
         LAMBDA roll, pitch, yaw : <<Degrees(roll), Degrees(pitch), Degrees(yaw)>>)))

\* a call of the conversions: the Euler angles e given to
\* euler_to_quaternion, the quaternion q it returned, and the angles out that
\* quaternion_to_euler returned for q (<<>> before each has returned)
NoConversion == [e |-> <<>>, q |-> <<>>, out |-> <<>>]

\* ------------------------------------------------------------ DataFetcher
\* A DataFetcher is a thread, here a record:
\*   pc       "started" after start(), "test" at the test of the loop of
\*            run(), "body" in the body of the loop, "ended" after run()
\*   running  the flag of that name
\*   consecutive_errors, skip_count  the locals of run()
\*   since_status  the time since last_status_time, in tenths of a second,
\*            as far as the throttle tells it apart: StatusInterval stands
\*            for that and longer
\*   outcome  how the last request ended: "" before the first, "ok" (status
\*            200 and a complete sample, data_received emitted), "timeout",
\*            "connection_error", "other" (any other exception)
\*   emitted  the message of the last connection_status signal: "" for none
\*            yet, "connected" for (True, ...), "unstable" and "offline"
\*            for (False, ...)
\* The counters success_count and error_count and last_success_time, which
\* only the report of stop() reads, are left out.

\* status_update_interval = 2.0 seconds, in tenths of a second
StatusInterval == 20

\* timeout = 0.5 seconds and interval = 100 ms, in tenths of a second
TimeoutTicks == 5

IntervalTicks == 1

\* time.sleep(1.0) after max_errors = 3 errors in a row
BackoffTicks == 10

max_errors == 3

\* DataFetcher(url, interval=100) and start(): last_status_time = 0 is
\* longer ago than any interval
DataFetcher_started ==
    [pc |-> "started", running |-> FALSE, consecutive_errors |-> 0, skip_count |-> 0,
     since_status |-> StatusInterval, outcome |-> "", emitted |-> ""]

\* d tenths of a second later
Later(t, d) == [t EXCEPT !.since_status = Min(StatusInterval, @ + d)]

\* connection_status.emit(...) if the last one is status_update_interval ago
EmitThrottled(t, message) ==
    IF t.since_status >= StatusInterval
    THEN [t EXCEPT !.emitted = message, !.since_status = 0]
    ELSE t

\* the time the request takes: the timeout, or next to nothing
RequestTicks(outcome) == IF outcome = "timeout" THEN TimeoutTicks ELSE 0

\* the try statement of the loop body for a request that ended in outcome
Requested(t0, outcome) ==
    Let(Later([t0 EXCEPT !.outcome = outcome], RequestTicks(outcome)), LAMBDA t :
        IF outcome = "ok"
        THEN IF t.consecutive_errors > 0 \/ t.skip_count > 0
             THEN EmitThrottled([t EXCEPT !.consecutive_errors = 0, !.skip_count = 0], "connected")
             ELSE t
        ELSE Let([t EXCEPT !.consecutive_errors = @ + 1], LAMBDA t1 :
             IF outcome = "timeout"
             THEN IF t1.consecutive_errors = 1 THEN [t1 EXCEPT !.skip_count = @ + 1]
                  ELSE EmitThrottled(t1, "unstable")
             ELSE IF outcome = "connection_error" THEN EmitThrottled(t1, "offline")
             ELSE t1))

\* the wait that ends the loop body
Waited(t, outcome) ==
    IF t.consecutive_errors >= max_errors
    THEN [Later(t, BackoffTicks) EXCEPT !.consecutive_errors = max_errors - 1]
    ELSE Later(t, Max(0, IntervalTicks - RequestTicks(outcome)))

\* one turn of the loop body of run()
Polled(t, outcome) == [Waited(Requested(t, outcome), outcome) EXCEPT !.pc = "test"]

\* the first statements of run()
Run(t) == [t EXCEPT !.running = TRUE, !.consecutive_errors = 0, !.skip_count = 0, !.pc = "test"]

\* while self.running
Tested(t) == [t EXCEPT !.pc = IF t.running THEN "body" ELSE "ended"]

\* ------------------------------------------------------------ the state

VARIABLES
    ekf,        \* an ExtendedKalmanFilter used on its own
    est,        \* an AdaptiveEKFAttitudeEstimator (the application's estimator)
    madgwick,   \* a MadgwickQuaternion
    call,       \* the last call: its name and its arguments
    mags,       \* the magnitudes |accel| of the update calls on est since its
                \* construction or last reset, oldest first
    steps,      \* the number of calls so far
    frame,      \* the locals of the _normalize_angle call that is running
    conv,       \* the call of a conversion function that is running or has returned
    rates,      \* the Euler rates a predict call has computed, with the state and the gyro rates it computed them from
    window,     \* the main window: algorithm, heading-trust slider
    resid,      \* the residual the last update_accel or update_magnetometer call computed
    conn        \* the fetcher threads the window has started and the one it holds

vars == <<ekf, est, madgwick, call, mags, steps, frame, conv, rates, window, resid, conn>>

\* ------------------------------------------------------------ the inputs

\* the calls on the ExtendedKalmanFilter of a run
MaxOps == 3

\* the calls on the AdaptiveEKFAttitudeEstimator of a run
MaxCalls == 5

\* the updates between two resets of a run over the history's length, and
\* those of them that are not level and at rest
MaxFifoUpdates == 11

MaxFifoTurns == 2

\* the calls on the MadgwickQuaternion of a run
MaxUpdates == 3

\* the calls with time steps of either sign of a run
MaxDegenerate == 3

Deg(n) == n * Scale

\* gyro rates (degrees per second) and time step of predict: at rest,
\* turning about all axes, and half a turn of roll in one step
PredictInputs ==
    {<<0, 0, 0, Dec(1, 10)>>, <<Deg(10), Deg(20), Deg(30), Dec(1, 10)>>, <<Deg(-180), 0, 0, Scale>>}

\* accelerations (g): magnitudes 0, 0.05 and 0.1 around the rejection
\* threshold, and 1, 1.2, 1.3, 1.5 and 1.6 around the trust thresholds
AccelInputs ==
    {<<0, 0, 0>>, <<0, 0, Dec(5, 100)>>, <<0, 0, Dec(1, 10)>>,
     <<0, Dec(6, 10), Dec(8, 10)>>, <<0, 0, Dec(12, 10)>>,
     <<0, 0, Dec(13, 10)>>, <<0, 0, Dec(15, 10)>>, <<0, Dec(96, 100), Dec(128, 100)>>}

\* headings (degrees)
MagInputs == {Deg(45), Deg(181)}

\* trust factors and noise levels given to the setters
TrustInputs == {-Dec(5, 10), Dec(1, 4), Dec(15, 10)}

NoiseInputs == {Dec(1, 10000), Dec(5, 100), 2 * Scale}

\* the trust the application's slider sets on its estimator
EstimatorTrustInputs == {Dec(1, 4)}

\* gains given to MadgwickQuaternion(beta) and to set_beta
BetaInputs == {-Scale, Dec(1, 1000), Dec(1, 100), Dec(1, 10), Dec(5, 10), Dec(9, 10)}

\* the samples given to MadgwickQuaternion.update: accelerations (g), gyro
\* rates (degrees per second) and dt (seconds, <<>> for None)
MadgwickSample(accel, gyro, dt) ==
    [accel |-> Tab(3, LAMBDA i : Fixed(accel[i])), gyro |-> gyro, dt |-> dt]

\* level and at rest; tilted and turning about all axes, dt left out; in
\* free fall and turning; and turning about x at 2^600 degrees per second,
\* level and in free fall
MadgwickSamples ==
    {MadgwickSample(<<0, 0, Scale>>, <<Fixed(0), Fixed(0), Fixed(0)>>, <<Fixed(Dec(1, 10))>>),
     MadgwickSample(<<0, Dec(6, 10), Dec(8, 10)>>,
                    <<Fixed(Deg(10)), Fixed(Deg(20)), Fixed(Deg(30))>>, <<>>),
     MadgwickSample(<<0, 0, 0>>, <<Fixed(0), Fixed(0), Fixed(Deg(90))>>, <<Fixed(Dec(1, 10))>>),
     MadgwickSample(<<0, 0, Scale>>, <<Huge(Scale), Fixed(0), Fixed(0)>>, <<Fixed(Dec(1, 10))>>),
     MadgwickSample(<<0, 0, 0>>, <<Huge(Scale), Fixed(0), Fixed(0)>>, <<Fixed(Dec(1, 10))>>)}

\* angles (radians) given to _normalize_angle: every eighth of a turn up to
\* three and a half turns either way, the ends of the interval and of the
\* turns next to it with their neighbours, and 2^600, twice and half that,
\* of either sign
AngleInputs ==
    {Fixed((k * Pi) \div 4) : k \in -14..14}
        \union {Fixed(s * (t * Pi + d)) : s \in {-1, 1}, t \in {1, 3}, d \in {-1, 0, 1}}
        \union {Huge(s * n) : s \in {-1, 1}, n \in {Scale \div 2, Scale, 2 * Scale}}

Sample(accel, gyro, mag_angle, mag_valid, dt) ==
    [accel |-> accel, gyro |-> gyro, mag_angle |-> mag_angle, mag_valid |-> mag_valid, dt |-> dt]

\* level and at rest, with a valid heading
SampleLevel == Sample(<<0, 0, Scale>>, <<0, 0, 0>>, <<0>>, TRUE, Dec(1, 10))

\* turning at 0.2 g, the heading present but not valid
SampleTurn ==
    Sample(<<0, 0, Dec(2, 10)>>, <<Deg(10), Deg(20), Deg(30)>>, <<Deg(45)>>, FALSE, Dec(1, 10))

\* shaken at 0.6 g, the heading flagged valid but None
SampleShake == Sample(<<0, 0, Dec(6, 10)>>, <<0, 0, Deg(30)>>, <<>>, TRUE, Dec(1, 10))

\* free fall: the accelerometer reads 0, the heading is valid
SampleFall == Sample(<<0, 0, 0>>, <<0, 0, 0>>, <<Deg(181)>>, TRUE, Dec(1, 10))

Samples == {SampleLevel, SampleTurn, SampleShake, SampleFall}

FifoSamples == {SampleLevel, SampleTurn}

\* the noises given to ExtendedKalmanFilter(process_noise, accel_noise,
\* mag_noise=mag_noise): the defaults, and an accelerometer without noise
NewInputs ==
    {<<Dec(1, 100), Dec(1, 10), Dec(5, 100)>>, <<Dec(1, 100), 0, Dec(5, 100)>>}

\* noise levels given to set_process_noise between the other calls
LevelInputs == {Dec(5, 100), -2 * Scale}

\* time steps (seconds): positive, zero and negative
DtInputs == {Dec(1, 10), 0, -Dec(1, 10)}

\* predict at rest and turning, over each of the time steps
DegeneratePredictInputs ==
    {<<g[1], g[2], g[3], dt>> : g \in {<<0, 0, 0>>, <<Deg(10), Deg(20), Deg(30)>>}, dt \in DtInputs}

\* an accelerometer that reads zero, and one tilted at 1 g
DegenerateAccelInputs == {<<0, 0, 0>>, <<0, Dec(6, 10), Dec(8, 10)>>}

\* samples of a level, turning sensor with each of the time steps
DegenerateSamples ==
    {Sample(<<0, 0, Scale>>, <<Deg(10), Deg(20), Deg(30)>>, <<>>, FALSE, dt) : dt \in DtInputs}

\* the rounds of predict and update_accel of a sensor at rest
MaxStatic == 20

\* the noise levels a filter was run at before the reset of the test
StaticLevelInputs == {Dec(1, 100), Dec(2, 100), Dec(5, 100)}

\* the updates of a run with a drifting gyro
MaxDrift == 20

\* samples of a level sensor whose gyro drifts about z at a constant rate
\* (degrees per second: 0.5 as in the module's test, and 20 either way) under
\* a constant, valid heading (degrees, of 0 to 360)
DriftSamples ==
    {Sample(<<0, 0, Scale>>, <<0, 0, rate>>, <<heading>>, TRUE, Dec(1, 10)) :
        rate \in {Dec(5, 10), Deg(20), -Deg(20)}, heading \in {Deg(45), Deg(181), Deg(350)}}

\* the states predict computes its rates at: rolls and pitches (degrees,
\* the pitches up to and at 90 either way, where the cosine is under 0.01
\* from 89.5 on) with yaw and biases at zero
GimbalStates ==
    {<<Radians(roll), Radians(pitch), 0, 0, 0, 0>> :
        roll \in {0, Deg(30), Deg(90), -Deg(135)},
        pitch \in {0, Deg(45), Deg(89), Dec(895, 10), Dec(899, 10), Deg(90), -Dec(899, 10), -Deg(90)}}

\* the corrected gyro rates (degrees per second) of those calls
GimbalRateInputs ==
    {<<0, 0, Deg(1)>>, <<0, Deg(1), 0>>, <<Deg(10), Deg(20), Deg(30)>>, <<-Deg(10), Deg(5), -Deg(30)>>}

\* Euler angles (degrees) given to euler_to_quaternion: roll and yaw over
\* (-180, 180] with both ends' neighbours, pitch up to 75 degrees either way;
\* among them (30, 45, 60) and (45, 0, 180) of the module's own test
RollYawInputs == {-179, -135, -90, -45, -30, -1, 0, 1, 30, 45, 60, 90, 135, 179, 180}

PitchInputs == {-75, -60, -45, -30, -1, 0, 1, 30, 45, 60, 75}

EulerInputs == {<<Deg(r), Deg(p), Deg(y)>> : r \in RollYawInputs, p \in PitchInputs, y \in RollYawInputs}

\* the events the main window handles in a run
MaxEvents == 4

\* the main window before its construction
NoWindow == [use_ekf |-> FALSE, algo_combo |-> -1, mag_trust_slider |-> -1, slider_enabled |-> FALSE]

\* positions the user drags the heading-trust slider to (0..100)
SliderInputs == {0, 25, 100}

\* entries of the algorithm box: 0 the EKF, 1 Madgwick
AlgorithmInputs == {0, 1}

\* samples the fetcher hands to on_data_received
WindowSamples == {SampleLevel, SampleTurn}

\* the corrections after the turn in a run that looks at the residuals
MaxResidualUpdates == 2

\* no update has computed a residual yet
NoResidual == [method |-> "", before |-> <<>>, raw |-> <<>>, y |-> <<>>]

\* gyro rates (degrees per second) of the one predict with dt = 1 that
\* turns the new filter: to yaw 179, -179 and 90, to roll 170 and -170, to
\* pitch -170, and not at all
TurnInputs ==
    {<<0, 0, Deg(179)>>, <<0, 0, Deg(-179)>>, <<0, 0, Deg(90)>>,
     <<Deg(170), 0, 0>>, <<Deg(-170), 0, 0>>, <<0, Deg(-170), 0>>, <<0, 0, 0>>}

\* headings in [0, 360) degrees
HeadingInputs == {0, Deg(1), Deg(90), Deg(179), Deg(180), Deg(181), Deg(270), Deg(359)}

\* accelerations (g) of magnitude 1 or so: level, upside down and rolled
\* either way, nose up and nose down
GravityInputs ==
    {<<0, 0, Scale>>, <<0, -Dec(1, 10), -Scale>>, <<0, Dec(1, 10), -Scale>>,
     <<-Dec(98, 100), 0, Dec(17, 100)>>, <<Dec(98, 100), 0, Dec(17, 100)>>}

\* the steps of a run of the window and its fetcher threads
MaxConnectionSteps == 7

\* the fetchers a run creates
MaxFetchers == 2

\* no fetcher yet: data_fetcher is None (0)
NoConnection == [threads |-> <<>>, data_fetcher |-> 0, waiting |-> FALSE, aborted |-> FALSE]

\* how a request ends
OutcomeInputs == {"ok", "timeout", "connection_error", "other"}

\* ------------------------------------------------------------ the actions

Init ==
    /\ ekf = EKF_init(Dec(1, 100))
    /\ est = Estimator_init
    /\ madgwick = Madgwick_init(Dec(1, 10))
    /\ call = [name |-> "init", args |-> <<>>]
    /\ mags = <<>>
    /\ steps = 0
    /\ frame = Idle
    /\ conv = NoConversion
    /\ rates = NoRates
    /\ window = NoWindow
    /\ resid = NoResidual
    /\ conn = NoConnection

Fresh(e) == [e EXCEPT !.log = <<>>]

\* calls on the ExtendedKalmanFilter
Predict ==
    \E g \in PredictInputs :
        /\ steps < MaxOps
        /\ ekf' = predict(Fresh(ekf), g[1], g[2], g[3], g[4])
        /\ call' = [name |-> "predict", args |-> g]
        /\ steps' = steps + 1
        /\ UNCHANGED <<est, madgwick, mags, frame, conv, rates, window, resid, conn>>

UpdateAccel ==
    \E a \in AccelInputs :
        /\ steps < MaxOps
        /\ ekf' = update_accel(Fresh(ekf), a[1], a[2], a[3])
        /\ call' = [name |-> "update_accel", args |-> a]
        /\ steps' = steps + 1
        /\ UNCHANGED <<est, madgwick, mags, frame, conv, rates, window, resid, conn>>

UpdateMagnetometer ==
    \E m \in MagInputs :
        /\ steps < MaxOps
        /\ ekf' = update_magnetometer(Fresh(ekf), m)
        /\ call' = [name |-> "update_magnetometer", args |-> <<m>>]
        /\ steps' = steps + 1
        /\ UNCHANGED <<est, madgwick, mags, frame, conv, rates, window, resid, conn>>

SetMagTrust ==
    \E f \in TrustInputs :
        /\ steps < MaxOps
        /\ ekf' = set_mag_trust(Fresh(ekf), f)
        /\ call' = [name |-> "set_mag_trust", args |-> <<f>>]
        /\ steps' = steps + 1
        /\ UNCHANGED <<est, madgwick, mags, frame, conv, rates, window, resid, conn>>

Reset ==
    /\ steps < MaxOps
    /\ ekf' = reset(Fresh(ekf))
    /\ call' = [name |-> "reset", args |-> <<>>]
    /\ steps' = steps + 1
    /\ UNCHANGED <<est, madgwick, mags, frame, conv, rates, window, resid, conn>>

\* calls on the AdaptiveEKFAttitudeEstimator
DoUpdate(s) ==
    /\ est' = update(est, s)
    /\ call' = [name |-> "update", args |-> <<s>>]
    /\ mags' = IF est'.ekf.raised THEN mags ELSE Append(mags, Norm3(s.accel[1], s.accel[2], s.accel[3]))
    /\ UNCHANGED <<ekf, madgwick, frame, conv, rates, window, resid, conn>>

DoReset ==
    /\ est' = Estimator_reset(est)
    /\ call' = [name |-> "reset", args |-> <<>>]
    /\ mags' = <<>>
    /\ UNCHANGED <<ekf, madgwick, frame, conv, rates, window, resid, conn>>

Update ==
    \E s \in Samples :
        /\ steps < MaxCalls
        /\ DoUpdate(s)
        /\ steps' = steps + 1

EstimatorSetMagTrust ==
    \E f \in EstimatorTrustInputs :
        /\ steps < MaxCalls
        /\ est' = Estimator_set_mag_trust(est, f)
        /\ call' = [name |-> "set_mag_trust", args |-> <<f>>]
        /\ steps' = steps + 1
        /\ UNCHANGED <<ekf, madgwick, mags, frame, conv, rates, window, resid, conn>>

EstimatorReset ==
    /\ steps < MaxCalls
    /\ DoReset
    /\ steps' = steps + 1

\* the updates since the last reset that were not level and at rest
Turns == Cardinality({i \in DOMAIN mags : mags[i] # Scale})

FifoUpdate ==
    \E s \in FifoSamples :
        /\ est.update_count < MaxFifoUpdates
        /\ s = SampleLevel \/ Turns < MaxFifoTurns
        /\ DoUpdate(s)
        /\ UNCHANGED steps

FifoReset ==
    /\ DoReset
    /\ UNCHANGED steps

\* the configuration of both filters
MadgwickNew ==
    \E b \in BetaInputs :
        /\ madgwick' = Madgwick_init(b)
        /\ call' = [name |-> "MadgwickQuaternion", args |-> <<b>>]
        /\ UNCHANGED <<ekf, est, mags, steps, frame, conv, rates, window, resid, conn>>

SetBeta ==
    \E b \in BetaInputs :
        /\ madgwick' = set_beta(madgwick, b)
        /\ call' = [name |-> "set_beta", args |-> <<b>>]
        /\ UNCHANGED <<ekf, est, mags, steps, frame, conv, rates, window, resid, conn>>

ConfigSetProcessNoise ==
    \E n \in NoiseInputs :
        /\ ekf' = set_process_noise(Fresh(ekf), n)
        /\ call' = [name |-> "set_process_noise", args |-> <<n>>]
        /\ UNCHANGED <<est, madgwick, mags, steps, frame, conv, rates, window, resid, conn>>

ConfigSetMagTrust ==
    \E f \in TrustInputs :
        /\ ekf' = set_mag_trust(Fresh(ekf), f)
        /\ call' = [name |-> "set_mag_trust", args |-> <<f>>]
        /\ UNCHANGED <<est, madgwick, mags, steps, frame, conv, rates, window, resid, conn>>

\* the other calls on the ExtendedKalmanFilter: its construction, the
\* noise setter and the accessors
New ==
    \E c \in NewInputs :
        /\ steps < MaxOps
        /\ ekf' = EKF_new(c[1], c[2], c[3])
        /\ call' = [name |-> "ExtendedKalmanFilter", args |-> c]
        /\ steps' = steps + 1
        /\ UNCHANGED <<est, madgwick, mags, frame, conv, rates, window, resid, conn>>

SetProcessNoise ==
    \E n \in LevelInputs :
        /\ steps < MaxOps
        /\ ekf' = set_process_noise(Fresh(ekf), n)
        /\ call' = [name |-> "set_process_noise", args |-> <<n>>]
        /\ steps' = steps + 1
        /\ UNCHANGED <<est, madgwick, mags, frame, conv, rates, window, resid, conn>>

GetEulerAngles ==
    /\ steps < MaxOps
    /\ ekf' = Returned(Fresh(ekf), "get_euler_angles", get_euler_angles(ekf))
    /\ call' = [name |-> "get_euler_angles", args |-> <<>>]
    /\ steps' = steps + 1
    /\ UNCHANGED <<est, madgwick, mags, frame, conv, rates, window, resid, conn>>

GetGyroBias ==
    /\ steps < MaxOps
    /\ ekf' = Returned(Fresh(ekf), "get_gyro_bias", get_gyro_bias(ekf))
    /\ call' = [name |-> "get_gyro_bias", args |-> <<>>]
    /\ steps' = steps + 1
    /\ UNCHANGED <<est, madgwick, mags, frame, conv, rates, window, resid, conn>>

GetStateCovariance ==
    /\ steps < MaxOps
    /\ ekf' = Returned(Fresh(ekf), "get_state_covariance", get_state_covariance(ekf))
    /\ call' = [name |-> "get_state_covariance", args |-> <<>>]
    /\ steps' = steps + 1
    /\ UNCHANGED <<est, madgwick, mags, frame, conv, rates, window, resid, conn>>

\* calls with time steps of either sign: on the filter, and on the estimator
DegeneratePredict ==
    \E g \in DegeneratePredictInputs :
        /\ steps < MaxDegenerate
        /\ ekf' = predict(Fresh(ekf), g[1], g[2], g[3], g[4])
        /\ call' = [name |-> "predict", args |-> g]
        /\ steps' = steps + 1
        /\ UNCHANGED <<est, madgwick, mags, frame, conv, rates, window, resid, conn>>

DegenerateUpdateAccel ==
    \E a \in DegenerateAccelInputs :
        /\ steps < MaxDegenerate
        /\ ekf' = update_accel(Fresh(ekf), a[1], a[2], a[3])
        /\ call' = [name |-> "update_accel", args |-> a]
        /\ steps' = steps + 1
        /\ UNCHANGED <<est, madgwick, mags, frame, conv, rates, window, resid, conn>>

DegenerateUpdate ==
    \E s \in DegenerateSamples :
        /\ steps < MaxDegenerate
        /\ DoUpdate(s)
        /\ steps' = steps + 1

\* calls on the MadgwickQuaternion
MadgwickUpdate ==
    \E s \in MadgwickSamples :
        /\ steps < MaxUpdates
        /\ madgwick' = Madgwick_update(madgwick, s.accel, s.gyro, s.dt)
        /\ call' = [name |-> "update", args |-> <<s>>]
        /\ steps' = steps + 1
        /\ UNCHANGED <<ekf, est, mags, frame, conv, rates, window, resid, conn>>

MadgwickReset ==
    /\ steps < MaxUpdates
    /\ madgwick' = Madgwick_reset(madgwick)
    /\ call' = [name |-> "reset", args |-> <<>>]
    /\ steps' = steps + 1
    /\ UNCHANGED <<ekf, est, mags, frame, conv, rates, window, resid, conn>>

\* _normalize_angle called on an angle, and on the result of the last call
NormalizeCall ==
    \E x \in AngleInputs :
        /\ frame.pc \in {"idle", "done"}
        /\ frame' = Entered(x, <<>>)
        /\ call' = [name |-> "_normalize_angle", args |-> <<x>>]
        /\ UNCHANGED <<ekf, est, madgwick, mags, steps, conv, rates, window, resid, conn>>

NormalizeAgain ==
    /\ frame.pc = "done"
    /\ frame.first = <<>>
    /\ frame' = Entered(frame.angle, <<frame.arg>>)
    /\ call' = [name |-> "_normalize_angle", args |-> <<frame.angle>>]
    /\ UNCHANGED <<ekf, est, madgwick, mags, steps, conv, rates, window, resid, conn>>

\* one step of a loop of the running call: its test, or its body
NormalizeDown ==
    /\ frame.pc \in {"down", "down_body"}
    /\ frame' = StepDown(frame)
    /\ UNCHANGED <<ekf, est, madgwick, call, mags, steps, conv, rates, window, resid, conn>>

NormalizeUp ==
    /\ frame.pc \in {"up", "up_body"}
    /\ frame' = StepUp(frame)
    /\ UNCHANGED <<ekf, est, madgwick, call, mags, steps, conv, rates, window, resid, conn>>

\* the conversions, once in a run: q = euler_to_quaternion(*e), then
\* quaternion_to_euler(*q)
EulerToQuaternion ==
    \E e \in EulerInputs :
        /\ conv = NoConversion
        /\ conv' = [e |-> e, q |-> euler_to_quaternion(e[1], e[2], e[3]), out |-> <<>>]
        /\ call' = [name |-> "euler_to_quaternion", args |-> e]
        /\ UNCHANGED <<ekf, est, madgwick, mags, steps, frame, rates, window, resid, conn>>

QuaternionToEuler ==
    /\ conv.q # <<>>
    /\ conv.out = <<>>
    /\ conv' = [conv EXCEPT !.out = quaternion_to_euler(conv.q[1], conv.q[2], conv.q[3], conv.q[4])]
    /\ call' = [name |-> "quaternion_to_euler", args |-> conv.q]
    /\ UNCHANGED <<ekf, est, madgwick, mags, steps, frame, rates, window, resid, conn>>

\* the static test: a filter, new or set to a noise level and turned, is
\* reset, then predict with the gyro at rest and update_accel at 1 g level
\* take turns; steps counts the calls since the reset
StaticDisturb ==
    \E n \in StaticLevelInputs :
        /\ call.name = "init"
        /\ ekf' = predict(set_process_noise(Fresh(ekf), n), Deg(10), Deg(20), Deg(30), Dec(1, 10))
        /\ call' = [name |-> "predict", args |-> <<Deg(10), Deg(20), Deg(30), Dec(1, 10)>>]
        /\ UNCHANGED <<est, madgwick, mags, steps, frame, conv, rates, window, resid, conn>>

StaticReset ==
    /\ steps = 0
    /\ call.name # "reset"
    /\ ekf' = reset(Fresh(ekf))
    /\ call' = [name |-> "reset", args |-> <<>>]
    /\ UNCHANGED <<est, madgwick, mags, steps, frame, conv, rates, window, resid, conn>>

StaticPredict ==
    /\ call.name \in {"reset", "update_accel"}
    /\ steps < 2 * MaxStatic
    /\ ekf' = predict(Fresh(ekf), 0, 0, 0, Dec(1, 10))
    /\ call' = [name |-> "predict", args |-> <<0, 0, 0, Dec(1, 10)>>]
    /\ steps' = steps + 1
    /\ UNCHANGED <<est, madgwick, mags, frame, conv, rates, window, resid, conn>>

StaticUpdateAccel ==
    /\ call.name = "predict"
    /\ steps > 0
    /\ ekf' = update_accel(Fresh(ekf), 0, 0, Scale)
    /\ call' = [name |-> "update_accel", args |-> <<0, 0, Scale>>]
    /\ steps' = steps + 1
    /\ UNCHANGED <<est, madgwick, mags, frame, conv, rates, window, resid, conn>>

\* the drift test: the estimator is reset, then updated with one and the
\* same sample, the one of the call before
DriftReset ==
    /\ call.name = "init"
    /\ DoReset
    /\ UNCHANGED steps

DriftUpdate ==
    \E s \in DriftSamples :
        /\ steps < MaxDrift
        /\ call.name = "reset" \/ call.args = <<s>>
        /\ DoUpdate(s)
        /\ steps' = steps + 1

\* predict up to its Euler rates, once in a run: the covariance it goes on
\* to compute at a guarded cosine is beyond the numbers of this module
PredictRates ==
    \E st \in GimbalStates, g \in GimbalRateInputs :
        /\ rates = NoRates
        /\ rates' = [state |-> st,
                     g |-> <<Radians(g[1]), Radians(g[2]), Radians(g[3])>>,
                     out |-> EulerRates(st, Radians(g[1]), Radians(g[2]), Radians(g[3]))]
        /\ call' = [name |-> "predict", args |-> <<g[1], g[2], g[3], Dec(1, 10)>>]
        /\ UNCHANGED <<ekf, est, madgwick, mags, steps, frame, conv, window, resid, conn>>

\* MainWindow.__init__: the EKF selected, AttitudeCalculator(alpha=0.98)
\* with beta (1 - 0.98) * 2.0 = 0.04, the slider at 100 and enabled
WindowNew ==
    /\ window = NoWindow
    /\ window' = [use_ekf |-> TRUE, algo_combo |-> 0, mag_trust_slider |-> 100, slider_enabled |-> TRUE]
    /\ est' = Estimator_init
    /\ madgwick' = Madgwick_init(Max(Dec(33, 1000), Min(Dec(3, 10), Mul(Scale - Dec(98, 100), 2 * Scale))))
    /\ call' = [name |-> "__init__", args |-> <<>>]
    /\ mags' = <<>>
    /\ UNCHANGED <<ekf, steps, frame, conv, rates, resid, conn>>

\* on_mag_trust_changed(value): the slider emits valueChanged when the user
\* moves it to another position, which an enabled slider allows
OnMagTrustChanged ==
    \E value \in SliderInputs :
        /\ window # NoWindow
        /\ steps < MaxEvents
        /\ window.slider_enabled
        /\ value # window.mag_trust_slider
        /\ window' = [window EXCEPT !.mag_trust_slider = value]
        /\ est' = IF window.use_ekf
                  THEN Estimator_set_mag_trust(est, Div(value * Scale, 100 * Scale))
                  ELSE est
        /\ call' = [name |-> "on_mag_trust_changed", args |-> <<value>>]
        /\ steps' = steps + 1
        /\ UNCHANGED <<ekf, madgwick, mags, frame, conv, rates, resid, conn>>

\* reset_attitude(): the reset button clicked
ResetAttitude ==
    /\ window # NoWindow
    /\ steps < MaxEvents
    /\ est' = IF window.use_ekf THEN Estimator_reset(est) ELSE est
    /\ mags' = IF window.use_ekf THEN <<>> ELSE mags
    /\ madgwick' = IF window.use_ekf THEN madgwick ELSE Madgwick_reset(madgwick)
    /\ call' = [name |-> "reset_attitude", args |-> <<>>]
    /\ steps' = steps + 1
    /\ UNCHANGED <<ekf, frame, conv, rates, window, resid, conn>>

\* on_algorithm_changed(index): the box emits currentIndexChanged when
\* another entry is chosen
OnAlgorithmChanged ==
    \E index \in AlgorithmInputs :
        /\ window # NoWindow
        /\ steps < MaxEvents
        /\ index # window.algo_combo
        /\ window' = [window EXCEPT !.algo_combo = index,
                                    !.use_ekf = (index = 0),
                                    !.slider_enabled = (index = 0)]
        /\ est' = IF index = 0 THEN Estimator_reset(est) ELSE est
        /\ mags' = IF index = 0 THEN <<>> ELSE mags
        /\ madgwick' = IF index = 0 THEN madgwick ELSE Madgwick_reset(madgwick)
        /\ call' = [name |-> "on_algorithm_changed", args |-> <<index>>]
        /\ steps' = steps + 1
        /\ UNCHANGED <<ekf, frame, conv, rates, resid, conn>>

\* on_data_received(data): the selected algorithm is updated with the
\* sample and dt = 0.1
OnDataReceived ==
    \E s \in WindowSamples :
        /\ window # NoWindow
        /\ steps < MaxEvents
        /\ est' = IF window.use_ekf THEN update(est, s) ELSE est
        /\ mags' = IF window.use_ekf /\ ~est'.ekf.raised
                   THEN Append(mags, Norm3(s.accel[1], s.accel[2], s.accel[3]))
                   ELSE mags
        /\ madgwick' = IF window.use_ekf THEN madgwick
                       ELSE Madgwick_update(madgwick,
                                            Tab(3, LAMBDA i : Fixed(s.accel[i])),
                                            Tab(3, LAMBDA i : Fixed(s.gyro[i])),
                                            <<Fixed(Dec(1, 10))>>)
        /\ call' = [name |-> "on_data_received", args |-> <<s>>]
        /\ steps' = steps + 1
        /\ UNCHANGED <<ekf, frame, conv, rates, window, resid, conn>>

\* the predict that turns the new filter
ResidualPredict ==
    \E g \in TurnInputs :
        /\ call.name = "init"
        /\ ekf' = predict(Fresh(ekf), g[1], g[2], g[3], Scale)
        /\ call' = [name |-> "predict", args |-> <<g[1], g[2], g[3], Scale>>]
        /\ UNCHANGED <<est, madgwick, mags, steps, frame, conv, rates, window, resid, conn>>

\* update_magnetometer, with the difference z - h and the residual y it
\* goes on with
ResidualUpdateMagnetometer ==
    \E m \in HeadingInputs :
        /\ call.name # "init"
        /\ steps < MaxResidualUpdates
        /\ ekf' = update_magnetometer(Fresh(ekf), m)
        /\ resid' = [method |-> "update_magnetometer",
                     before |-> ekf.state,
                     raw |-> <<normalize_angle(Radians(m)) - ekf.state[3]>>,
                     y |-> MagResidual(ekf.state, m)]
        /\ call' = [name |-> "update_magnetometer", args |-> <<m>>]
        /\ steps' = steps + 1
        /\ UNCHANGED <<est, madgwick, mags, frame, conv, rates, window, conn>>

\* update_accel on an acceleration it does not reject, with the difference
\* z - h and the residual y it goes on with
ResidualUpdateAccel ==
    \E a \in GravityInputs :
        /\ call.name # "init"
        /\ steps < MaxResidualUpdates
        /\ ekf' = update_accel(Fresh(ekf), a[1], a[2], a[3])
        /\ resid' = Let(Norm3(a[1], a[2], a[3]), LAMBDA norm :
                    Let3(Div(a[1], norm), Div(a[2], norm), Div(a[3], norm), LAMBDA ax, ay, az :
                        [method |-> "update_accel",
                         before |-> ekf.state,
                         raw |-> <<Atan2(ay, az) - ekf.state[1],
                                   Atan2(-ax, Sqrt(Mul(ay, ay) + Mul(az, az))) - ekf.state[2],
                                   0>>,
                         y |-> AccelResidual(ekf.state, ax, ay, az)]))
        /\ call' = [name |-> "update_accel", args |-> a]
        /\ steps' = steps + 1
        /\ UNCHANGED <<est, madgwick, mags, frame, conv, rates, window, conn>>

\* toggle_connection() when there is no fetcher or its flag is not set: a
\* new DataFetcher is made, started and held. A held fetcher that has
\* started and not yet entered run() loses its last reference: Qt ends
\* the process when the object of a running thread is destroyed, unless
\* the thread has got hold of the object in time.
Connect(abort) ==
    /\ ~conn.waiting /\ ~conn.aborted
    /\ IF conn.data_fetcher = 0 THEN ~abort
       ELSE /\ ~conn.threads[conn.data_fetcher].running
            /\ abort => conn.threads[conn.data_fetcher].pc = "started"
    /\ Len(conn.threads) < MaxFetchers
    /\ conn' = IF abort THEN [conn EXCEPT !.aborted = TRUE]
               ELSE [conn EXCEPT !.threads = Append(@, DataFetcher_started),
                                 !.data_fetcher = Len(conn.threads) + 1]
    /\ call' = [name |-> "toggle_connection", args |-> <<"connect">>]

\* toggle_connection() when the flag of the fetcher is set: stop() clears
\* the flag and waits for the thread
Disconnect ==
    /\ ~conn.waiting /\ ~conn.aborted
    /\ conn.data_fetcher # 0 /\ conn.threads[conn.data_fetcher].running
    /\ conn' = [conn EXCEPT !.threads[conn.data_fetcher].running = FALSE, !.waiting = TRUE]
    /\ call' = [name |-> "toggle_connection", args |-> <<"disconnect">>]

\* wait() returns when the thread has ended, and toggle_connection with it
Disconnected ==
    /\ conn.waiting /\ ~conn.aborted
    /\ conn.threads[conn.data_fetcher].pc = "ended"
    /\ conn' = [conn EXCEPT !.waiting = FALSE]
    /\ call' = [name |-> "stop", args |-> <<>>]

\* a step of fetcher thread i: run() begins, tests its flag, or polls
FetcherStep(i) ==
    /\ ~conn.aborted
    /\ \/ /\ conn.threads[i].pc = "started"
          /\ conn' = [conn EXCEPT !.threads[i] = Run(@)]
          /\ call' = [name |-> "run", args |-> <<i>>]
       \/ /\ conn.threads[i].pc = "test"
          /\ conn' = [conn EXCEPT !.threads[i] = Tested(@)]
          /\ call' = [name |-> "run", args |-> <<i>>]
       \/ \E outcome \in OutcomeInputs :
              /\ conn.threads[i].pc = "body"
              /\ conn' = [conn EXCEPT !.threads[i] = Polled(@, outcome)]
              /\ call' = [name |-> "run", args |-> <<i, outcome>>]

ToggleConnection ==
    /\ steps < MaxConnectionSteps
    /\ (\E abort \in BOOLEAN : Connect(abort)) \/ Disconnect
    /\ steps' = steps + 1
    /\ UNCHANGED <<ekf, est, madgwick, mags, frame, conv, rates, window, resid>>

StopReturns ==
    /\ steps < MaxConnectionSteps
    /\ Disconnected
    /\ steps' = steps + 1
    /\ UNCHANGED <<ekf, est, madgwick, mags, frame, conv, rates, window, resid>>

FetcherRuns ==
    \E i \in DOMAIN conn.threads :
        /\ steps < MaxConnectionSteps
        /\ FetcherStep(i)
        /\ steps' = steps + 1
        /\ UNCHANGED <<ekf, est, madgwick, mags, frame, conv, rates, window, resid>>

\* the first click on the connect button
PollingConnect ==
    /\ conn.data_fetcher = 0
    /\ Connect(FALSE)
    /\ UNCHANGED <<ekf, est, madgwick, mags, steps, frame, conv, rates, window, resid>>

\* the fetcher thread of that click runs, for as long as it is let
PollingStep ==
    /\ conn.data_fetcher = 1
    /\ FetcherStep(1)
    /\ UNCHANGED <<ekf, est, madgwick, mags, steps, frame, conv, rates, window, resid>>

\* ------------------------------------------------------ specifications

\* the application's estimator: update, set_mag_trust and reset
Next == Update \/ EstimatorSetMagTrust \/ EstimatorReset

Spec == Init /\ [][Next]_vars

\* the estimator over more updates than its history holds
NextFifo == FifoUpdate \/ FifoReset

SpecFifo == Init /\ [][NextFifo]_vars

\* an ExtendedKalmanFilter called method by method
NextEKF == Predict \/ UpdateAccel \/ UpdateMagnetometer \/ SetMagTrust \/ Reset

SpecEKF == Init /\ [][NextEKF]_vars

\* the configuration calls
NextConfig == MadgwickNew \/ SetBeta \/ ConfigSetProcessNoise \/ ConfigSetMagTrust

SpecConfig == Init /\ [][NextConfig]_vars

\* every operation of an ExtendedKalmanFilter, its construction included
NextApi ==
    \/ New \/ Predict \/ UpdateAccel \/ UpdateMagnetometer \/ Reset
    \/ SetMagTrust \/ SetProcessNoise
    \/ GetEulerAngles \/ GetGyroBias \/ GetStateCovariance

SpecApi == Init /\ [][NextApi]_vars

\* the filter and the estimator given time steps of either sign
NextDegenerate == DegeneratePredict \/ DegenerateUpdateAccel \/ DegenerateUpdate

SpecDegenerate == Init /\ [][NextDegenerate]_vars

\* a MadgwickQuaternion updated and reset
NextMadgwick == MadgwickUpdate \/ MadgwickReset

SpecMadgwick == Init /\ [][NextMadgwick]_vars

\* _normalize_angle run loop by loop: a call that has started goes on
NextNormalize == NormalizeCall \/ NormalizeAgain \/ NormalizeDown \/ NormalizeUp

SpecNormalize ==
    Init /\ [][NextNormalize]_vars /\ WF_vars(NormalizeDown) /\ WF_vars(NormalizeUp)

\* the conversion functions, one after the other
NextConvert == EulerToQuaternion \/ QuaternionToEuler

SpecConvert == Init /\ [][NextConvert]_vars

\* the static test of the filter
NextStatic == StaticDisturb \/ StaticReset \/ StaticPredict \/ StaticUpdateAccel

SpecStatic == Init /\ [][NextStatic]_vars

\* the drift test of the estimator: an update that can be made is made
NextDrift == DriftReset \/ DriftUpdate

SpecDrift == Init /\ [][NextDrift]_vars /\ WF_vars(NextDrift)

\* the Euler rates of predict over rolls, pitches and gyro rates
NextGimbal == PredictRates

SpecGimbal == Init /\ [][NextGimbal]_vars

\* the main window: its construction, then slider moves, reset clicks,
\* algorithm switches and incoming samples in any order
NextWindow ==
    WindowNew \/ OnMagTrustChanged \/ ResetAttitude \/ OnAlgorithmChanged \/ OnDataReceived

SpecWindow == Init /\ [][NextWindow]_vars

\* a filter turned by one predict, then corrected by headings and
\* accelerations
NextResidual == ResidualPredict \/ ResidualUpdateMagnetometer \/ ResidualUpdateAccel

SpecResidual == Init /\ [][NextResidual]_vars

\* the connect button and the fetcher threads, in any interleaving
NextConnection == ToggleConnection \/ StopReturns \/ FetcherRuns

SpecConnection == Init /\ [][NextConnection]_vars

\* one connection that is never closed: the fetcher thread is scheduled
\* again and again, and every request ends one way or another
NextPolling == PollingConnect \/ PollingStep

SpecPolling == Init /\ [][NextPolling]_vars /\ WF_vars(PollingStep)

\* ---------------------------------------------------------- properties

\* the magnitude of the acceleration of a call
Magnitude(a) == Norm3(a[1], a[2], a[3])

\* the methods update(s) calls on its filter, each finding the noise q, when
\* the history holds h after the call
ExpectedLog(q, s, h) ==
    <<<<"predict", q>>, <<"update_accel", q>>>>
      \o (IF s.mag_valid /\ s.mag_angle # <<>> THEN <<<<"update_magnetometer", q>>>> ELSE <<>>)
      \o (IF Len(h) >= 3 THEN <<<<"set_process_noise", q>>>> ELSE <<>>)

\* C1: every update calls predict, then update_accel, then update_magnetometer
\* if and only if mag_valid holds and mag_angle is not None, and adapts the
\* process noise only after these, each once: predict and both corrections
\* find the noise level of before the call.
C1_UpdateOrder ==
    [][call'.name = "update" =>
         est'.ekf.log = ExpectedLog(est.ekf.Q[1][1], call'.args[1], est'.accel_history)]_vars

\* an update with a valid heading has adapted the noise to a level other than
\* the one its predict found
C1_Witness ==
    /\ call.name = "update"
    /\ Len(est.ekf.log) = 4
    /\ est.ekf.log[3][1] = "update_magnetometer"
    /\ est.ekf.log[4][1] = "set_process_noise"
    /\ est.ekf.Q[1][1] # est.ekf.log[1][2]

\* C2: update_accel with a magnitude under 0.1 leaves the state, P and
\* accel_trust_factor as they were; a magnitude of exactly 0.1 is not
\* rejected: it corrects P and sets the trust.
C2_RejectedIsNoOp ==
    [][call'.name = "update_accel" =>
         /\ Magnitude(call'.args) < Dec(1, 10) =>
              /\ ekf'.state = ekf.state
              /\ ekf'.P = ekf.P
              /\ ekf'.accel_trust_factor = ekf.accel_trust_factor
         /\ Magnitude(call'.args) = Dec(1, 10) =>
              /\ ekf'.P # ekf.P
              /\ ekf'.accel_trust_factor = Dec(3, 10)]_vars

\* a rejected call on a filter that has turned and whose trust was lowered
C2_Witness ==
    /\ call.name = "update_accel"
    /\ Magnitude(call.args) < Dec(1, 10)
    /\ ekf.accel_trust_factor = Dec(3, 10)
    /\ ekf.state # Zeros(6)
    /\ ekf.P # Eye(6)

\* the trust the claim gives for a deviation d of the magnitude from 1 g
TrustOfDeviation(d) ==
    IF d > Dec(5, 10) THEN Dec(3, 10)
    ELSE IF Dec(2, 10) < d /\ d <= Dec(5, 10) THEN Dec(7, 10)
    ELSE Scale

\* C3: a call of update_accel that is not rejected stores the trust of
\* d = ||accel| - 1| alone: 0.3 for d > 0.5, 0.7 for 0.2 < d <= 0.5, 1.0 for
\* d <= 0.2, whatever the trust and the state were: magnitude 1.0 gives 1.0,
\* 1.6 gives 0.3, 1.3 and 1.5 give 0.7, 1.2 gives 1.0.
C3_TrustOfDeviation ==
    [][call'.name = "update_accel" /\ Magnitude(call'.args) >= Dec(1, 10) =>
         /\ ekf'.accel_trust_factor = TrustOfDeviation(Abs(Magnitude(call'.args) - Scale))
         /\ Magnitude(call'.args) = Scale => ekf'.accel_trust_factor = Scale
         /\ Magnitude(call'.args) = Dec(16, 10) => ekf'.accel_trust_factor = Dec(3, 10)
         /\ Magnitude(call'.args) = Dec(13, 10) => ekf'.accel_trust_factor = Dec(7, 10)
         /\ Magnitude(call'.args) = Dec(15, 10) => ekf'.accel_trust_factor = Dec(7, 10)
         /\ Magnitude(call'.args) = Dec(12, 10) => ekf'.accel_trust_factor = Scale]_vars

\* a deviation of exactly 0.5 on a filter already corrected twice: trust 0.7
C3_Witness ==
    /\ call.name = "update_accel"
    /\ Magnitude(call.args) = Dec(15, 10)
    /\ ekf.accel_trust_factor = Dec(7, 10)
    /\ steps = MaxOps
    /\ ekf.state # Zeros(6)

\* C4: both trust factors lie in [0, 1]: update_accel stores 0.3, 0.7 or 1.0
\* only, and set_mag_trust(f) stores min(1, max(0, f)) and does not raise.
C4_TrustInUnitInterval ==
    /\ ekf.accel_trust_factor \in {Dec(3, 10), Dec(7, 10), Scale}
    /\ 0 <= ekf.mag_trust_factor /\ ekf.mag_trust_factor <= Scale
    /\ call.name = "set_mag_trust" =>
         /\ ~ekf.raised
         /\ ekf.mag_trust_factor =
              (IF call.args[1] < 0 THEN 0 ELSE IF call.args[1] > Scale THEN Scale ELSE call.args[1])

\* set_mag_trust with a negative factor, stored as 0, on a filter whose
\* accelerometer trust was lowered
C4_Witness ==
    /\ call.name = "set_mag_trust"
    /\ call.args[1] < 0
    /\ ekf.mag_trust_factor = 0
    /\ ekf.accel_trust_factor = Dec(3, 10)

\* C5: the Madgwick gain is within [0.01, 0.5] after construction with any
\* beta and after any set_beta, and the noise level set_process_noise
\* stores is within [0.001, 1.0].
C5_ConfigClamped ==
    /\ Dec(1, 100) <= madgwick.beta /\ madgwick.beta <= Dec(5, 10)
    /\ Dec(1, 1000) <= ekf.Q[1][1] /\ ekf.Q[1][1] <= Scale

\* the last n entries of a sequence
LastOf(m, n) == SubSeq(m, Len(m) - n + 1, Len(m))

\* C6: accel_history holds at most 10 entries: the magnitudes of the last
\* min(10, n) of the n updates since the last reset or the construction,
\* oldest first.
C6_HistoryIsLastTen ==
    /\ Len(est.accel_history) <= 10
    /\ est.accel_history = LastOf(mags, IF Len(mags) < 10 THEN Len(mags) ELSE 10)

\* eleven updates, of which the first, at another magnitude than the
\* second, has left the history
C6_Witness ==
    /\ Len(mags) = 11
    /\ mags[1] # mags[2]
    /\ Len(est.accel_history) = 10
    /\ est.accel_history[1] = mags[2]
    /\ est.accel_history[10] = mags[11]

\* C7: the first and the second update after the construction or a reset
\* leave Q as it is and do not call set_process_noise; every update from
\* the third on ends with set_process_noise and a Q of one of the levels.
C7_AdaptFromThird ==
    [][call'.name = "update" =>
         IF Len(mags') < 3
         THEN /\ est'.ekf.Q = est.ekf.Q
              /\ \A i \in DOMAIN est'.ekf.log : est'.ekf.log[i][1] # "set_process_noise"
         ELSE /\ est'.ekf.log[Len(est'.ekf.log)][1] = "set_process_noise"
              /\ est'.ekf.Q[1][1] \in {Dec(1, 100), Dec(2, 100), Dec(5, 100)}
              /\ est'.ekf.Q[4][4] = est'.ekf.Q[1][1] \div 1000]_vars

\* the first update after a reset has left a noise that is not the default
C7_Witness ==
    /\ call.name = "update"
    /\ Len(mags) = 1
    /\ est.ekf.Q[1][1] # Dec(1, 100)

\* C8: once three magnitudes are buffered the noise level is 0.05 for a
\* standard deviation s > 0.3 of the buffer, 0.02 for 0.1 < s <= 0.3 and
\* 0.01 for s <= 0.1; every update buffers its magnitude, also one under
\* 0.1 whose correction was rejected.
C8_NoiseByDeviation ==
    call.name = "update" =>
        /\ est.accel_history # <<>>
        /\ est.accel_history[Len(est.accel_history)] = Magnitude(call.args[1].accel)
        /\ Len(est.accel_history) >= 3 =>
             /\ Std(est.accel_history) > Dec(3, 10) => est.ekf.Q[1][1] = Dec(5, 100)
             /\ Dec(1, 10) < Std(est.accel_history) /\ Std(est.accel_history) <= Dec(3, 10) =>
                  est.ekf.Q[1][1] = Dec(2, 100)
             /\ Std(est.accel_history) <= Dec(1, 10) => est.ekf.Q[1][1] = Dec(1, 100)

\* magnitudes 0, 0.6, 0, 0.6, two of them rejected by update_accel: their
\* standard deviation is exactly 0.3 and the level 0.02
C8_Witness ==
    /\ call.name = "update"
    /\ est.accel_history = <<0, Dec(6, 10), 0, Dec(6, 10)>>
    /\ Std(est.accel_history) = Dec(3, 10)
    /\ est.ekf.Q[1][1] = Dec(2, 100)

\* C9: after reset() of the estimator the state is all zeros, P the 6x6
\* identity and the history empty.
C9_ResetClears ==
    call.name = "reset" =>
        /\ est.ekf.state = <<0, 0, 0, 0, 0, 0>>
        /\ \A i, j \in 1..6 : est.ekf.P[i][j] = (IF i = j THEN Scale ELSE 0)
        /\ est.accel_history = <<>>

\* a reset of an estimator that had adapted its noise in four updates
C9_Witness ==
    /\ call.name = "reset"
    /\ steps = MaxCalls
    /\ est.ekf.Q[1][1] # Dec(1, 100)
    /\ est.ekf.state = Zeros(6)

C11_NormalizeIdempotent ==
    frame.pc = "done" =>
        /\ (frame.angle.n - frame.arg.n) % (2 * Pi) = 0
        /\ frame.first # <<>> => frame.angle = frame.arg

\* a call on the result of a call on an angle outside [-pi, pi] has returned
C11_Witness ==
    /\ frame.pc = "done"
    /\ frame.first # <<>>
    /\ Above(frame.first[1]) \/ Below(frame.first[1])

\* C12: every call of _normalize_angle returns.
C12_NormalizeTerminates == (frame.pc = "down") ~> (frame.pc = "done")

\* C13: predict leaves the three gyro-bias components of the state as they
\* were, whatever the rates and the time step; of the filter's fields only
\* the state's angles and P change.
C13_PredictKeepsBias ==
    [][call'.name = "predict" =>
          /\ SubSeq(ekf'.state, 4, 6) = SubSeq(ekf.state, 4, 6)
          /\ ekf'.Q = ekf.Q
          /\ ekf'.accel_trust_factor = ekf.accel_trust_factor
          /\ ekf'.mag_trust_factor = ekf.mag_trust_factor
          /\ ekf'.update_count = ekf.update_count]_vars

\* predict has turned a filter whose biases are not zero
C13_Witness ==
    /\ call.name = "predict"
    /\ call.args[1] # 0
    /\ \E i \in 4..6 : ekf.state[i] # 0
    /\ \E i \in 1..3 : ekf.state[i] # 0

\* the sum of the squares of the components of a quaternion of numbers that
\* are not large
SquaredNorm(q) == Mul(q[1].n, q[1].n) + Mul(q[2].n, q[2].n) + Mul(q[3].n, q[3].n) + Mul(q[4].n, q[4].n)

\* C14: in every reachable state of a MadgwickQuaternion, after updates of
\* either branch and after reset, q is a unit quaternion: w^2 + x^2 + y^2 +
\* z^2 is 1 within the tolerance (1e-5 here, where the numbers carry six
\* decimals; the claim's 1e-6 is narrower still).
C14_QuaternionUnit ==
    /\ \A i \in 1..4 : madgwick.q[i].e = 0
    /\ Abs(SquaredNorm(madgwick.q) - Scale) <= Dec(1, 100000)

\* C15: an update whose integrated quaternion has norm zero leaves q as it
\* was, in both branches.
C15_ZeroNormLeavesQ ==
    [][call'.name = "update" /\ IsZero(madgwick'.norm) => madgwick'.q = madgwick.q]_vars

\* C16: predict is never given a dt that is zero or negative: whatever dt a
\* caller gives to the estimator's update, the dt its filter's predict gets
\* is above zero.
C16_PredictDtPositive == est.ekf.predict_dt # <<>> => est.ekf.predict_dt[1] > 0

\* C17: a predict with dt <= 0 changes neither the state nor P, an
\* update_accel with an acceleration of norm zero changes neither, and
\* neither call ends in an exception.
C17_DegenerateSkipped ==
    [][(\/ call'.name = "predict" /\ call'.args[4] <= 0
        \/ call'.name = "update_accel" /\ Magnitude(call'.args) = 0)
          => /\ ekf'.state = ekf.state
             /\ ekf'.P = ekf.P
             /\ ~ekf'.raised]_vars

\* C18: no operation of the filter ends in an exception: update_accel and
\* update_magnetometer with a singular S, and get_state_covariance with a
\* negative P[i, i], return as the other calls do.
C18_NoOperationRaises == ~ekf.raised

\* C19: in every reachable state P is symmetric (here within 1e-4, for the
\* rounding of the products) and P[0,0], P[1,1] and P[2,2], as the
\* diagonal of a positive semidefinite matrix, are not negative.
C19_CovarianceSymmetricPSD ==
    /\ \A i, j \in 1..6 : Abs(ekf.P[i][j] - ekf.P[j][i]) <= Dec(1, 10000)
    /\ \A i \in 1..3 : ekf.P[i][i] >= 0

\* C20: the accessors and the setters leave state and P as they were, and
\* a call that ends in an exception leaves state, P and both trust factors
\* as they were.
C20_MutationWholeOrNone ==
    [][/\ call'.name \in {"get_euler_angles", "get_gyro_bias", "get_state_covariance",
                          "set_mag_trust", "set_process_noise"}
          => ekf'.state = ekf.state /\ ekf'.P = ekf.P
       /\ call'.name # "ExtendedKalmanFilter" /\ ekf'.raised
          => /\ ekf'.state = ekf.state
             /\ ekf'.P = ekf.P
             /\ ekf'.accel_trust_factor = ekf.accel_trust_factor
             /\ ekf'.mag_trust_factor = ekf.mag_trust_factor]_vars

\* the numerical tolerance of a round trip: 0.002 degrees, where the numbers
\* carry six decimals (the doubles of the program agree within 1e-8)
RoundTripTolerance == Dec(2, 1000)

\* the quaternion returned is a unit quaternion
UnitQuaternion(q) ==
    Abs(Mul(q[1], q[1]) + Mul(q[2], q[2]) + Mul(q[3], q[3]) + Mul(q[4], q[4]) - Scale) <= Dec(1, 100000)

\* a difference of two angles in degrees, as an angle: in [-180, 180]
RECURSIVE WrapDegrees(_)
WrapDegrees(d) ==
    IF d > Deg(180) THEN WrapDegrees(d - Deg(360))
    ELSE IF d < -Deg(180) THEN WrapDegrees(d + Deg(360))
    ELSE d

C22_StaticStaysLevel ==
    call.name = "reset" \/ steps > 0 =>
        /\ \A i \in 1..3 : Abs(get_euler_angles(ekf)[i]) <= Dec(1, 100)
        /\ get_gyro_bias(ekf) = <<0, 0, 0>>
        /\ ~ekf.raised

\* twenty rounds after the reset of a filter that had turned at the noise
\* level 0.05: the covariance has moved, the state has not
C22_Witness ==
    /\ steps = 2 * MaxStatic
    /\ call.name = "update_accel"
    /\ ekf.Q[1][1] = Dec(5, 100)
    /\ ekf.P[1][1] < Dec(1, 10)
    /\ ekf.P[4][4] # Scale

\* the magnitude of the wrapped difference of the yaw of a filter and a
\* heading in degrees, in radians
YawError(e, mag_angle) == Abs(normalize_angle(e.state[3] - normalize_angle(Radians(mag_angle))))

\* the filter of an estimator in an update with the sample s, at the call of
\* update_magnetometer
BeforeHeading(e, s) ==
    update_accel(predict(e, s.gyro[1], s.gyro[2], s.gyro[3], s.dt), s.accel[1], s.accel[2], s.accel[3])

\* the yaw error within which the drift is held (0.5 degrees), and the one
\* the yaw settles under (0.1 degrees)
DriftErrorBound == Radians(Dec(5, 10))

SettledError == Radians(Dec(1, 10))

\* C23: under a constant heading given with every sample and a gyro that
\* drifts about z at a constant rate, the yaw error after every update is
\* within a bound that does not grow with the number of updates, no call of
\* update_magnetometer leaves a larger error than it found, and the yaw
\* settles next to the heading.
C23_HeadingBoundsYaw ==
    /\ [](call.name = "update" => YawError(est.ekf, call.args[1].mag_angle[1]) <= DriftErrorBound)
    /\ [][call'.name = "update" =>
            YawError(est'.ekf, call'.args[1].mag_angle[1])
                <= YawError(BeforeHeading(est.ekf, call'.args[1]), call'.args[1].mag_angle[1])]_vars
    /\ <>[](call.name = "update" /\ YawError(est.ekf, call.args[1].mag_angle[1]) <= SettledError)

\* the last update of a run at 20 degrees per second: the filter has learnt
\* a gyro bias and the yaw is next to the heading of 181 degrees
C23_Witness ==
    /\ call.name = "update"
    /\ steps = MaxDrift
    /\ call.args[1].gyro[3] = Deg(20)
    /\ call.args[1].mag_angle[1] = Deg(181)
    /\ est.ekf.state[6] > Radians(Deg(5))
    /\ est.ekf.state[3] < -Radians(Deg(178))

\* the fields of two estimators and of their filters are equal (log, raised
\* and predict_dt record calls and are no fields of the program)
SameEstimator(a, b) ==
    /\ a.accel_history = b.accel_history
    /\ a.update_count = b.update_count
    /\ a.ekf.state = b.ekf.state
    /\ a.ekf.P = b.ekf.P
    /\ a.ekf.Q = b.ekf.Q
    /\ a.ekf.R_accel = b.ekf.R_accel
    /\ a.ekf.R_mag = b.ekf.R_mag
    /\ a.ekf.accel_trust_factor = b.ekf.accel_trust_factor
    /\ a.ekf.mag_trust_factor = b.ekf.mag_trust_factor
    /\ a.ekf.update_count = b.ekf.update_count

\* C24: after reset() the estimator is in the state of a newly constructed
\* one (state, P, Q, trust factors, history), whatever it had adapted to,
\* and so does on every sequence of samples what a new one does.
C24_ResetIsFresh == call.name = "reset" => SameEstimator(est, Estimator_init)

\* C25: the roll rate and the yaw rate of predict are computed with a
\* cosine of the pitch of magnitude 0.01 at least, the tangent too: at any
\* pitch, the roll rate is within 100 (|gy| + |gz|) of gx and the yaw rate
\* within 100 (|gy| + |gz|) of zero, for the corrected gyro rates gx, gy, gz.
C25_RatesGuarded ==
    rates.out # <<>> =>
        /\ Abs(rates.out[1] - rates.g[1]) <= 100 * (Abs(rates.g[2]) + Abs(rates.g[3])) + 100
        /\ Abs(rates.out[3]) <= 100 * (Abs(rates.g[2]) + Abs(rates.g[3])) + 100

\* C26: while the EKF is the selected algorithm, the mag_trust_factor of the
\* window's estimator is the position of the heading-trust slider divided by
\* 100, after any slider moves, algorithm switches, reset clicks and samples.
C26_TrustFollowsSlider ==
    window # NoWindow /\ window.use_ekf =>
        est.ekf.mag_trust_factor = Div(window.mag_trust_slider * Scale, 100 * Scale)

\* the level of a process-noise matrix: the first entry of its diagonal
QLevel(Q) == Q[1][1]

\* C27: in every state of the estimator Q is diagonal, the three entries of
\* its attitude block are one level out of 0.01, 0.02 and 0.05, and the
\* three entries of its bias block are exactly 0.001 times that level.
C27_QBlocksTogether ==
    /\ \A i, j \in 1..6 : i # j => est.ekf.Q[i][j] = 0
    /\ QLevel(est.ekf.Q) \in {Dec(1, 100), Dec(2, 100), Dec(5, 100)}
    /\ \A i \in 1..3 : est.ekf.Q[i][i] = QLevel(est.ekf.Q)
    /\ \A i \in 4..6 : est.ekf.Q[i][i] = Mul(QLevel(est.ekf.Q), Dec(1, 1000))

\* the estimator has adapted its noise to 0.02 and later to 0.05
C27_Witness ==
    /\ call.name = "update"
    /\ QLevel(est.ekf.Q) = Dec(5, 100)
    /\ est.ekf.Q[6][6] = 50
    /\ \E k \in DOMAIN est.ekf.log : est.ekf.log[k][2] = Dec(2, 100)

\* y is the angle of the turn raw taken into [-pi, pi]
ShortestPath(raw, y) ==
    /\ -Pi <= y /\ y <= Pi
    /\ \E k \in -1..1 : y = raw + k * 2 * Pi

\* C28: the yaw residual of update_magnetometer and the roll and pitch
\* residuals of update_accel are the difference of measurement and state
\* taken into [-pi, pi], for every heading in [0, 360) degrees and every
\* normalized state; the heading moves the yaw by no more than that
\* residual; the yaw component of the residual of update_accel is exactly 0.
C28_ResidualsWrapped ==
    /\ resid.method = "update_magnetometer" =>
         /\ ShortestPath(resid.raw[1], resid.y[1])
         /\ Abs(normalize_angle(ekf.state[3] - resid.before[3])) <= Abs(resid.y[1]) + 2
    /\ resid.method = "update_accel" =>
         /\ ShortestPath(resid.raw[1], resid.y[1])
         /\ ShortestPath(resid.raw[2], resid.y[2])
         /\ resid.y[3] = 0

\* yaw 179 degrees and heading 181 degrees: the difference is -358 degrees
\* and the residual +2 degrees
C28_Witness ==
    /\ resid.method = "update_magnetometer"
    /\ call.args = <<Deg(181)>>
    /\ Abs(resid.before[3] - Radians(Deg(179))) <= 2
    /\ resid.raw[1] < -Pi
    /\ Abs(resid.y[1] - Radians(Deg(2))) <= 2

\* the fetcher threads that have been started and have not ended
Alive == {i \in DOMAIN conn.threads : conn.threads[i].pc # "ended"}

\* C29: at most one fetcher thread is alive at any time, whatever the order
\* of the clicks on the connect button and of the steps of the threads; and
\* once a disconnect has returned no thread is alive.
C29_OneFetcherAlive ==
    ~conn.aborted =>
        /\ Cardinality(Alive) <= 1
        /\ call.name = "stop" => Alive = {}

\* the last request of the fetcher ended in outcome
LastOutcome(outcome) == conn.data_fetcher = 1 /\ conn.threads[1].outcome = outcome

\* the last connection_status signal of the fetcher was (True, ...)
ShowsConnected == conn.data_fetcher = 1 /\ conn.threads[1].emitted = "connected"

\* C30: a request that succeeds with a complete sample leaves the count of
\* consecutive errors at 0, and is followed in the end by a
\* connection_status(True, ...) signal unless a later request fails, also
\* when it is the first request and no error came before it.
C30_StatusFollowsPoll ==
    /\ [](LastOutcome("ok") => conn.threads[1].consecutive_errors = 0)
    /\ LastOutcome("ok") ~> (ShowsConnected \/ ~LastOutcome("ok"))

====
